---- MODULE Spec2Model ----
(***************************************************************************)
(* The course-sync pipeline of habituating-server: the Temporal workflow   *)
(* CourseSyncWorkflow (temporal/courses/workflows.py), its activities      *)
(* (temporal/courses/activities.py) and the services they call             *)
(* (services/assignment_extractor.py, services/due_date_finder.py,         *)
(* services/scraper_v2.py), run against the Supabase tables job_sync_groups,*)
(* job_syncs, assignments and due_dates.                                   *)
(*                                                                         *)
(* One behaviour is one run of the workflow for one user.  The worker runs *)
(* activity attempts in parallel; every store call is one atomic step.     *)
(* An attempt of create_sync_jobs or find_assignments is modelled call by  *)
(* call, an attempt of find_due_dates write by write; an attempt of        *)
(* scrape_course is one step.                                              *)
(*                                                                         *)
(* workflows.py:66-70 schedules create_sync_jobs without an argument while *)
(* activities.py:41 declares the parameter user_id; the model binds        *)
(* user_id to the user of the run, and an attempt of the activity may fail *)
(* at any call, so the behaviours in which every attempt fails are part of *)
(* the model.                                                              *)
(*                                                                         *)
(* Beside the workflow, the module has specifications of their own for     *)
(* ScraperV2.build_tree page by page (SpecCrawl), for                      *)
(* ContentHasher.generate_content_hash (SpecHash), for the endpoint        *)
(* find_due_dates_endpoint of main.py (SpecEndpoint) and for               *)
(* ScraperV2.clean_cookies_for_playwright (SpecCookies).                   *)
(***************************************************************************)
EXTENDS Integers, Sequences, FiniteSets, TLC

(***************************************************************************)
(* Bounds                                                                  *)
(***************************************************************************)
\* Environment failures (time-outs, store errors, oracle errors, browser
\* launch failures, due dates the oracle does not find or does not give in
\* ISO format, inserts answered without the row) injected in one run.
MaxFaults == 3

\* The elements of a document handed to the content hasher.
MaxElements == 2

\* The cookies handed to clean_cookies_for_playwright in one call.
MaxCookies == 2

(***************************************************************************)
(* Program constants                                                       *)
(***************************************************************************)
\* RetryPolicy(maximum_attempts=3)
MaxAttempts == 3

\* RetryPolicy(non_retryable_error_types=[...])
NonRetryableErrorTypes == {"ValueError", "AuthenticationError"}

(***************************************************************************)
(* The tables the run only reads: user_courses, sources, and the pages of  *)
(* each source's site with the assignment titles each page shows.          *)
(***************************************************************************)
User == "u1"

\* Rows of table sources, in stored order: two sources for course c1, one
\* for course c2, none for course c3.
Sources == <<"s1", "s2", "s3">>

SourceCourse(s) == IF s = "s3" THEN "c2" ELSE "c1"

\* The pages the crawl of a source visits, in tree-traversal order: one page
\* on each site of course c1, two pages on the site of course c2.
SitePages(s) ==
  CASE s = "s1" -> <<"a">>
    [] s = "s2" -> <<"b">>
    [] OTHER    -> <<"c", "d">>

\* The titles of the assignments a page shows, in page order: HW1 is on every
\* page, HW2 on page c only.
PageTitles(url) ==
  CASE url = "c" -> <<"HW1", "HW2">>
    [] OTHER     -> <<"HW1">>

VARIABLES
  enrolled,          \* table user_courses: the courses of User
  groups,            \* table job_sync_groups (id = index)
  jobSyncs,          \* table job_syncs (id = index, created_at order = index order)
  assignments,       \* table assignments (id = index)
  dueDates,          \* table due_dates (id = index)
  wfPc,              \* CourseSyncWorkflow.run: create, scrape, assign, due, done, failed
  jobSyncIds,        \* job_sync_ids of the run
  cj,                \* the create_sync_jobs activity and the locals of its attempt
  cAct, aAct, dAct,  \* the scrape_course / find_assignments / find_due_dates tasks, by position
  ex,                \* locals of each running extract_all_assignments, by position
  dd,                \* locals of each running find_due_dates, by position
  scrapeResults, assignmentResults, dueDateResults,
  wfResult,          \* the SyncPipelineResult returned
  faults,            \* environment failures so far
  bt,                \* ScraperV2.build_tree: its locals, the tree and the bucket scraped-html
  hc,                \* two calls of ContentHasher.generate_content_hash
  ep,                \* find_due_dates_endpoint (main.py): the locals of one request
  ck                 \* one call of ScraperV2.clean_cookies_for_playwright

vars == <<enrolled, groups, jobSyncs, assignments, dueDates, wfPc,
          jobSyncIds, cj, cAct, aAct, dAct, ex, dd, scrapeResults, assignmentResults,
          dueDateResults, wfResult, faults, bt, hc, ep, ck>>

pipelineVarsButFaults ==
  <<enrolled, groups, jobSyncs, assignments, dueDates, wfPc, jobSyncIds, cj, cAct, aAct,
    dAct, ex, dd, scrapeResults, assignmentResults, dueDateResults, wfResult>>

pipelineVars == <<pipelineVarsButFaults, faults>>

store == <<groups, jobSyncs, assignments, dueDates>>
stageVars == <<cAct, aAct, dAct, ex, dd, scrapeResults, assignmentResults, dueDateResults>>

(***************************************************************************)
(* Temporal: tasks, attempts and the retry policy                          *)
(***************************************************************************)
NoTree == <<>>

\* A job sync whose course_id is null.
NoCourse == ""
NoPath == <<>>
NoHash == <<>>

NoResult == [job_sync_id |-> 0, success |-> FALSE, error_message |-> ""]

\* A task the workflow has scheduled and no worker has picked up yet.
NewTask == [st |-> "pending", attempt |-> 1, result |-> NoResult]

\* An error type is retried unless the policy lists it.
Retryable(errType) == errType \notin NonRetryableErrorTypes

\* An attempt ended by raising errType (or by its start_to_close time-out):
\* the server schedules the next attempt, or fails the activity.
ActivityFailure(act, errType) ==
  IF act.attempt < MaxAttempts /\ Retryable(errType)
    THEN [act EXCEPT !.st = "pending", !.attempt = @ + 1]
    ELSE [act EXCEPT !.st = "raised", !.result = [NoResult EXCEPT !.error_message = errType]]

\* An attempt ended by returning a value.
ActivityReturn(act, res) == [act EXCEPT !.st = "returned", !.result = res]

Finished(act) == act.st \in {"returned", "raised"}

Started(act) == act.st # "pending" \/ act.attempt > 1

(***************************************************************************)
(* create_sync_jobs                                                        *)
(***************************************************************************)
NewCreateAttempt(n) ==
  [st |-> "running", attempt |-> n, pc |-> "group", group |-> 0,
   todo |-> <<>>, ids |-> <<>>, result |-> <<>>]

\* sources.select("*").in_("course_id", course_ids)
SourcesOf(courseIds) == SelectSeq(Sources, LAMBDA s : SourceCourse(s) \in courseIds)

\* job_sync_groups.insert({user_id, created_at})
CJ_InsertGroup ==
  /\ cj.st = "running" /\ cj.pc = "group"
  /\ groups' = Append(groups, [user_id |-> User, completed_at |-> FALSE])
  /\ cj' = [cj EXCEPT !.pc = "select", !.group = Len(groups) + 1]
  /\ UNCHANGED <<enrolled, bt, hc, ep, ck, jobSyncs, assignments, dueDates, wfPc,
                 jobSyncIds, stageVars, wfResult, faults>>

\* user_courses.select and sources.select; either empty: return no job syncs.
CJ_Select ==
  /\ cj.st = "running" /\ cj.pc = "select"
  /\ cj' = IF enrolled = {} \/ SourcesOf(enrolled) = <<>>
             THEN [cj EXCEPT !.st = "returned", !.pc = "done", !.result = <<>>]
             ELSE [cj EXCEPT !.pc = "insert", !.todo = SourcesOf(enrolled)]
  /\ UNCHANGED <<enrolled, bt, hc, ep, ck, store, wfPc, jobSyncIds, stageVars,
                 wfResult, faults>>

\* job_syncs.insert for the next source; the id is kept only if the reply
\* carries the row.
CJ_InsertJob ==
  /\ cj.st = "running" /\ cj.pc = "insert" /\ cj.todo # <<>>
  /\ \E reply \in {"row", "empty"} :
       IF reply = "row"
         THEN /\ jobSyncs' = Append(jobSyncs,
                    [group |-> cj.group, course_id |-> SourceCourse(Head(cj.todo)),
                     source_id |-> Head(cj.todo), scraped_tree |-> NoTree])
              /\ cj' = [cj EXCEPT !.todo = Tail(@), !.ids = Append(@, Len(jobSyncs) + 1)]
         ELSE /\ jobSyncs' = jobSyncs
              /\ cj' = [cj EXCEPT !.todo = Tail(@)]
  /\ UNCHANGED <<enrolled, bt, hc, ep, ck, groups, assignments, dueDates, wfPc,
                 jobSyncIds, stageVars, wfResult, faults>>

\* return JobSyncResult(job_sync_ids=job_sync_ids, ...)
CJ_Return ==
  /\ cj.st = "running" /\ cj.pc = "insert" /\ cj.todo = <<>>
  /\ cj' = [cj EXCEPT !.st = "returned", !.pc = "done", !.result = cj.ids]
  /\ UNCHANGED <<enrolled, bt, hc, ep, ck, store, wfPc, jobSyncIds, stageVars,
                 wfResult, faults>>

\* A store call of the attempt raises (or the attempt times out): the handler
\* logs and re-raises, the rows already inserted stay, and the retry policy
\* decides.
CJ_Fail ==
  /\ cj.st = "running" /\ faults < MaxFaults
  /\ faults' = faults + 1
  /\ cj' = IF cj.attempt < MaxAttempts /\ Retryable("Exception")
             THEN NewCreateAttempt(cj.attempt + 1)
             ELSE [cj EXCEPT !.st = "raised", !.pc = "done"]
  /\ UNCHANGED <<enrolled, bt, hc, ep, ck, store, wfPc, jobSyncIds, stageVars, wfResult>>

(***************************************************************************)
(* scrape_course (one attempt is one step)                                 *)
(***************************************************************************)
\* ContentHasher.generate_content_hash of the page now served at url.
ContentHash(url) == <<"sha256", url>>

\* ScraperV2.save_html: "<job_sync_id>/<md5(url)>.html"
HtmlPath(j, url) == <<j, url>>

\* The job sync the change detection reads: same source, another id, latest
\* created_at (order desc, limit 1); 0 when there is none.
PreviousSync(j) ==
  LET others == {k \in 1..Len(jobSyncs) :
                   k # j /\ jobSyncs[k].source_id = jobSyncs[j].source_id}
  IN IF others = {} THEN 0 ELSE CHOOSE k \in others : \A m \in others : m <= k

PreviousTree(j) == IF PreviousSync(j) = 0 THEN NoTree ELSE jobSyncs[PreviousSync(j)].scraped_tree

\* DbHelpers.extract_hashes_from_tree: the hash the previous tree holds for url.
PreviousHashes(tree, url) ==
  {tree[k].content_hash : k \in {n \in 1..Len(tree) : tree[n].url = url /\ tree[n].content_hash # NoHash}}

\* ScraperV2.build_tree, every page fetched: one node per page of the site.
CrawlTree(j) ==
  LET pages == SitePages(jobSyncs[j].source_id)
      prev  == PreviousTree(j)
  IN [k \in 1..Len(pages) |->
        [url |-> pages[k],
         html_path |-> HtmlPath(j, pages[k]),
         content_hash |-> ContentHash(pages[k]),
         content_changed |-> IF PreviousHashes(prev, pages[k]) # {}
                               THEN ContentHash(pages[k]) \notin PreviousHashes(prev, pages[k])
                               ELSE TRUE]]

ScrapeOk(j) == [job_sync_id |-> j, success |-> TRUE, error_message |-> ""]

\* except Exception as e: return ScrapeResult(success=False, error_message=str(e))
ScrapeCaught(j, err) == [job_sync_id |-> j, success |-> FALSE, error_message |-> err]

\* The crawl succeeds: the tree is saved on the job sync and the result returned.
SC_Scrape(i) ==
  /\ i \in DOMAIN cAct /\ cAct[i].st = "pending"
  /\ jobSyncs' = [jobSyncs EXCEPT ![jobSyncIds[i]].scraped_tree = CrawlTree(jobSyncIds[i])]
  /\ cAct' = [cAct EXCEPT ![i] = ActivityReturn(@, ScrapeOk(jobSyncIds[i]))]
  /\ UNCHANGED <<enrolled, bt, hc, ep, ck, groups, assignments, dueDates, wfPc, jobSyncIds,
                 cj, aAct, dAct, dd, ex, scrapeResults, assignmentResults, dueDateResults,
                 wfResult, faults>>

\* chromium.launch raises inside build_tree: the activity's handler catches it
\* and returns a failed ScrapeResult; no tree is saved.
SC_LaunchFailure(i) ==
  /\ i \in DOMAIN cAct /\ cAct[i].st = "pending" /\ faults < MaxFaults
  /\ faults' = faults + 1
  /\ cAct' = [cAct EXCEPT ![i] = ActivityReturn(@, ScrapeCaught(jobSyncIds[i], "BrowserLaunchError"))]
  /\ UNCHANGED <<enrolled, bt, hc, ep, ck, store, wfPc, jobSyncIds, cj, aAct, dAct, dd, ex,
                 scrapeResults, assignmentResults, dueDateResults, wfResult>>

\* The attempt exceeds start_to_close_timeout (5 min), before or after the
\* tree was saved.
SC_Timeout(i) ==
  /\ i \in DOMAIN cAct /\ cAct[i].st = "pending" /\ faults < MaxFaults
  /\ faults' = faults + 1
  /\ \E saved \in BOOLEAN :
       jobSyncs' = IF saved
                     THEN [jobSyncs EXCEPT ![jobSyncIds[i]].scraped_tree = CrawlTree(jobSyncIds[i])]
                     ELSE jobSyncs
  /\ cAct' = [cAct EXCEPT ![i] = ActivityFailure(@, "TimeoutError")]
  /\ UNCHANGED <<enrolled, bt, hc, ep, ck, groups, assignments, dueDates, wfPc, jobSyncIds,
                 cj, aAct, dAct, dd, ex, scrapeResults, assignmentResults, dueDateResults, wfResult>>

(***************************************************************************)
(* ContentHasher and ScraperV2, page by page                               *)
(*                                                                         *)
(* A string is a sequence of tokens.  A text is a sequence of characters;  *)
(* an HTML document is the sequence of its elements, each a tag with the   *)
(* text under it; a URL is <<scheme, "//", host, path>>, followed by "#"   *)
(* and a fragment when it has one.  hashlib.sha256 and hashlib.md5 are     *)
(* taken to be free of collisions: a digest is the tagged string hashed.   *)
(***************************************************************************)
Whitespace == {" ", "\n"}

\* str.lower, token by token
Lower(c) ==
  CASE c = "A" -> "a" [] c = "B" -> "b" [] c = "L" -> "l" [] c = "N" -> "n"
    [] c = "S" -> "s" [] c = "U" -> "u" [] c = "AX" -> "ax" [] OTHER -> c

RECURSIVE LStrip(_)
LStrip(s) == IF s # <<>> /\ Head(s) \in Whitespace THEN LStrip(Tail(s)) ELSE s

RECURSIVE RStrip(_)
RStrip(s) == IF s # <<>> /\ s[Len(s)] \in Whitespace THEN RStrip(SubSeq(s, 1, Len(s) - 1)) ELSE s

\* str.strip
Strip(s) == RStrip(LStrip(s))

\* Variant: nav is not among the elements decomposed.
RemovedTagsWithoutNav == {"script", "style", "meta", "link", "noscript", "header", "footer"}

\* soup([...]) of generate_content_hash: the elements decomposed.
RemovedTags == {"script", "style", "meta", "link", "noscript", "header", "footer", "nav"}

\* soup.get_text(separator=' ', strip=True) after the decompose: the texts of
\* the elements kept, each stripped, the empty ones left out, joined by ' '.
RECURSIVE GetText(_)
GetText(html) ==
  IF html = <<>> THEN <<>>
  ELSE LET t    == Strip(Head(html).text)
           rest == GetText(Tail(html))
       IN IF Head(html).tag \in RemovedTags \/ t = <<>> THEN rest
          ELSE IF rest = <<>> THEN t ELSE t \o <<" ">> \o rest

\* The words of s in lower case, joined by one space; gap tells that
\* whitespace was passed since the last character put out.
RECURSIVE JoinWords(_, _, _)
JoinWords(s, out, gap) ==
  IF s = <<>> THEN out
  ELSE IF Head(s) \in Whitespace THEN JoinWords(Tail(s), out, TRUE)
  ELSE JoinWords(Tail(s),
                 (IF gap /\ out # <<>> THEN Append(out, " ") ELSE out) \o <<Lower(Head(s))>>,
                 FALSE)

\* "Normalize whitespace" and "Convert to lowercase": the lines and the
\* double-space chunks are stripped and joined by ' ', then
\* ' '.join(normalized_text.lower().split()); the first pass only turns
\* whitespace into other whitespace, so the result is that of the second.
NormalizeText(text) == JoinWords(text, <<>>, FALSE)

\* ContentHasher.generate_content_hash: sha256 of f"{url}|{normalized_text}".
generate_content_hash(html, url) ==
  <<"sha256", url \o <<"|">> \o NormalizeText(GetText(html))>>

\* ContentHasher.has_content_changed
has_content_changed(current_hash, previous_hash) ==
  IF previous_hash = NoHash THEN TRUE ELSE current_hash # previous_hash

\* The prefix of s before the first "#": link.split("#")[0]
RECURSIVE BeforeHash(_)
BeforeHash(s) ==
  IF s = <<>> \/ Head(s) = "#" THEN <<>> ELSE <<Head(s)>> \o BeforeHash(Tail(s))

\* str.startswith
StartsWith(s, p) == Len(s) >= Len(p) /\ SubSeq(s, 1, Len(p)) = p

\* The scheme tokens a link may begin with.
Schemes == {"http:", "https:", "mailto:", "javascript:"}

\* urllib.parse.urljoin(base, link) for the links of the model: the empty
\* link gives base; a link with a scheme is returned as it is; a link that
\* is an absolute path replaces the path of base.
urljoin(base, link) ==
  IF link = <<>> THEN base
  ELSE IF Head(link) \in Schemes THEN link
  ELSE SubSeq(base, 1, 3) \o link

\* ScraperV2.resolve_url
resolve_url(base_url, link) ==
  IF link = <<>> THEN <<>>
  ELSE LET l == BeforeHash(Strip(link))
       IN IF StartsWith(l, <<"http:", "//">>) \/ StartsWith(l, <<"https:", "//">>) THEN l
          ELSE IF StartsWith(l, <<"//">>) THEN <<base_url[1]>> \o l
          ELSE urljoin(base_url, l)

\* get_relevant_links, lines 174-180: the links of the oracle resolved
\* against the current URL, the empty results left out.
RECURSIVE ResolvedLinks(_, _)
ResolvedLinks(current_url, links) ==
  IF links = <<>> THEN <<>>
  ELSE LET resolved == resolve_url(current_url, Head(links))
       IN (IF resolved # <<>> THEN <<resolved>> ELSE <<>>)
            \o ResolvedLinks(current_url, Tail(links))

\* hashlib.md5(url.encode()).hexdigest()
Md5(url) == <<"md5", url>>

\* save_html: f"{self.job_sync_id}/{md5(url)}.html"
Filename(job_sync_id, url) == <<job_sync_id, Md5(url)>>

\* Variant: an upload that leaves a blob that exists as it is.
UploadKeepExisting(blobs, filename, html) ==
  [p \in DOMAIN blobs \cup {filename} |-> IF p \in DOMAIN blobs THEN blobs[p] ELSE html]

\* storage.upload with upsert "true", and storage.update: the blob holds the
\* payload of the call.
Upload(blobs, filename, html) ==
  [p \in DOMAIN blobs \cup {filename} |-> IF p = filename THEN html ELSE blobs[p]]

\* The site of the crawl: the source's URL and the links the link oracle may
\* return for a page, as it gives them.
RootUrl == <<"https:", "//", "h", "/">>

LinkLists ==
  { <<>>,
    << <<" ", "/p1", " ">>, <<"https:", "//", "h", "/p2">> >>,
    << <<"//", "h", "/p3">>, <<"/">> >>,
    << <<"/p4", "#", "s">>, <<"mailto:", "prof">> >>,
    << <<"/p5">>, <<"#", "top">>, <<>> >>,
    << <<"/p1">>, <<"https:", "//", "h", "/">>, <<"/p1", "#", "s">>, <<"/p1", "/">> >> }

\* The documents the site may serve: the first two differ in a script, in
\* case and in whitespace only, the third shows another text.
PageV1 == <<[tag |-> "h1", text |-> <<"A", "B">>], [tag |-> "script", text |-> <<"A">>],
            [tag |-> "p", text |-> <<"A">>]>>

PageV1Restyled == <<[tag |-> "nav", text |-> <<"B">>], [tag |-> "h1", text |-> <<"\n", "a", "b", " ">>],
                    [tag |-> "p", text |-> <<" ", "A">>]>>

PageV2 == <<[tag |-> "h1", text |-> <<"A", "B">>], [tag |-> "p", text |-> <<"B">>]>>

\* page.goto: only an http(s) URL can be navigated to.
Navigable(url) == Len(url) >= 3 /\ url[1] \in {"http:", "https:"} /\ url[2] = "//"

\* What page.content() may return for url.
Served(url) ==
  IF url = RootUrl THEN {PageV1, PageV2}
  ELSE IF Len(url) >= 4 /\ url[4] = "/p1" THEN {PageV1, PageV1Restyled}
  ELSE {PageV1}

\* Node.__init__: no html_path, no content_hash, content_changed True, no
\* previous_hash.  The tree is the sequence of its nodes in the order of
\* their creation, each with the index of its parent and its depth.
NewNode(url, parent, depth) ==
  [url |-> url, parent |-> parent, depth |-> depth, html_path |-> NoPath,
   content_hash |-> NoHash, content_changed |-> TRUE, previous_hash |-> NoHash]

\* DbHelpers.extract_hashes_from_tree: url -> content_hash of the nodes that
\* have a content_hash; a later node of the same url overwrites.
extract_hashes_from_tree(tree) ==
  LET hashed == {k \in 1..Len(tree) : tree[k].content_hash # NoHash}
      urls   == {tree[k].url : k \in hashed}
  IN [u \in urls |->
        tree[CHOOSE k \in hashed : tree[k].url = u /\ \A m \in hashed : tree[m].url = u => m <= k].content_hash]

\* The trees an earlier sync of the source may have left: none; one whose
\* root and /p1 were hashed when they served PageV1 and whose /p2 failed.
PreviousTrees ==
  { NoTree,
    << [NewNode(RootUrl, 0, 0) EXCEPT !.content_hash = generate_content_hash(PageV1, RootUrl)],
       [NewNode(<<"https:", "//", "h", "/p1">>, 1, 1)
          EXCEPT !.content_hash = generate_content_hash(PageV1, <<"https:", "//", "h", "/p1">>)],
       NewNode(<<"https:", "//", "h", "/p2">>, 1, 1) >> }

\* The job syncs of the model and what the bucket scraped-html may hold when
\* the crawl starts: nothing; the blobs an earlier attempt of each job sync
\* wrote for the root.
CrawlJobSyncs == {1, 2}

OldBlobs ==
  { <<>>,
    [p \in {Filename(j, RootUrl) : j \in CrawlJobSyncs} |-> PageV2] }

\* Variant: the change detection that trusts a page it has no hash for.
DetectChangeNewUnchanged(url, content_hash, previous_hashes) ==
  IF url \in DOMAIN previous_hashes
    THEN [previous_hash |-> previous_hashes[url],
          content_changed |-> content_hash # previous_hashes[url]]
    ELSE [previous_hash |-> NoHash, content_changed |-> FALSE]

\* build_tree, lines 262-272: previous_hash and content_changed of a node.
DetectChange(url, content_hash, previous_hashes) ==
  IF url \in DOMAIN previous_hashes
    THEN [previous_hash |-> previous_hashes[url],
          content_changed |-> content_hash # previous_hashes[url]]
    ELSE [previous_hash |-> NoHash, content_changed |-> TRUE]

\* max_depth of build_tree
max_depth == 3

\* Variant: children at every depth.
AddsChildrenAlways(current_depth) == TRUE

\* if current_depth < max_depth - 1
AddsChildren(current_depth) == current_depth < max_depth - 1

\* The crawl before build_tree is called.
IdleCrawl == [pc |-> "idle", job_sync_id |-> 0, previous_hashes |-> <<>>, nodes |-> <<>>,
              queue |-> <<>>, level |-> <<>>, current_depth |-> 0, visited |-> {},
              links |-> <<>>, blobs |-> <<>>]

\* build_tree up to the launch of the browser: the root node, visited and
\* the queue.
StartedCrawl(job_sync_id, previous_tree, blobs) ==
  [pc |-> "queue", job_sync_id |-> job_sync_id,
   previous_hashes |-> IF previous_tree = NoTree THEN <<>> ELSE extract_hashes_from_tree(previous_tree),
   nodes |-> <<NewNode(RootUrl, 0, 0)>>, queue |-> <<1>>, level |-> <<>>,
   current_depth |-> 0, visited |-> {RootUrl}, links |-> <<>>, blobs |-> blobs]

\* The nodes at the head of the queue that lie at the depth of its head.
RECURSIVE LevelOf(_, _, _)
LevelOf(queue, nodes, depth) ==
  IF queue # <<>> /\ nodes[Head(queue)].depth = depth
    THEN <<Head(queue)>> \o LevelOf(Tail(queue), nodes, depth)
    ELSE <<>>

\* while queue: current_depth is the depth of the head; the nodes of that
\* depth are popped into current_level_nodes.
BT_Level ==
  /\ bt.pc = "queue" /\ bt.queue # <<>>
  /\ LET d     == bt.nodes[Head(bt.queue)].depth
         level == LevelOf(bt.queue, bt.nodes, d)
     IN bt' = [bt EXCEPT !.pc = "level", !.current_depth = d, !.level = level,
                         !.queue = SubSeq(@, Len(level) + 1, Len(@))]
  /\ UNCHANGED <<pipelineVars, hc, ep, ck>>

\* The node at the head of current_level_nodes is dealt with.
NodeDone(b) ==
  IF Len(b.level) > 1 THEN [b EXCEPT !.level = Tail(@)]
  ELSE [b EXCEPT !.level = <<>>, !.pc = "queue"]

\* The node with its hash and its change flag, after scrape_page returned html.
Hashed(node, html, previous_hashes) ==
  LET h == generate_content_hash(html, node.url)
      c == DetectChange(node.url, h, previous_hashes)
  IN [node EXCEPT !.content_hash = h, !.previous_hash = c.previous_hash,
                  !.content_changed = c.content_changed]

\* The children added for the resolved links: each link not yet visited, once.
RECURSIVE AddChildren(_, _, _)
AddChildren(b, parent, links) ==
  IF links = <<>> THEN b
  ELSE IF Head(links) \in b.visited THEN AddChildren(b, parent, Tail(links))
  ELSE AddChildren([b EXCEPT !.visited = @ \cup {Head(links)},
                             !.nodes = Append(@, NewNode(Head(links), parent, b.current_depth + 1)),
                             !.queue = Append(@, Len(b.nodes) + 1)],
                   parent, Tail(links))

\* Variant: the failure of a page leaves the loop over the pages.
BT_FetchErrorAborts ==
  /\ bt.pc = "level"
  /\ Navigable(bt.nodes[Head(bt.level)].url) => faults < MaxFaults
  /\ faults' = IF Navigable(bt.nodes[Head(bt.level)].url) THEN faults + 1 ELSE faults
  /\ bt' = [bt EXCEPT !.pc = "done"]
  /\ UNCHANGED <<pipelineVarsButFaults, hc, ep, ck>>

\* scrape_page raises (a time-out of page.goto, a URL that cannot be
\* navigated to): the handler of the node logs it, the node stays as it was
\* made.
BT_FetchError ==
  /\ bt.pc = "level"
  /\ Navigable(bt.nodes[Head(bt.level)].url) => faults < MaxFaults
  /\ faults' = IF Navigable(bt.nodes[Head(bt.level)].url) THEN faults + 1 ELSE faults
  /\ bt' = NodeDone(bt)
  /\ UNCHANGED <<pipelineVarsButFaults, hc, ep, ck>>

\* The page is fetched and hashed, then get_relevant_links raises: the node
\* keeps its hash and its change flag, has no html_path and no children;
\* links is what the page before left.
BT_OracleError ==
  /\ bt.pc = "level" /\ faults < MaxFaults
  /\ LET n == Head(bt.level)
     IN /\ Navigable(bt.nodes[n].url)
        /\ \E html \in Served(bt.nodes[n].url) :
             bt' = NodeDone([bt EXCEPT !.nodes[n] = Hashed(@, html, bt.previous_hashes)])
  /\ faults' = faults + 1
  /\ UNCHANGED <<pipelineVarsButFaults, hc, ep, ck>>

\* get_relevant_links has returned the links, then the upload and the update
\* of save_html both raise: no html_path and no children.
BT_SaveError ==
  /\ bt.pc = "level" /\ faults < MaxFaults
  /\ LET n == Head(bt.level)
         u == bt.nodes[n].url
     IN /\ Navigable(u)
        /\ \E html \in Served(u), links \in LinkLists :
             bt' = NodeDone([bt EXCEPT !.nodes[n] = Hashed(@, html, bt.previous_hashes),
                                       !.links = ResolvedLinks(u, links)])
  /\ faults' = faults + 1
  /\ UNCHANGED <<pipelineVarsButFaults, hc, ep, ck>>

\* The body of the loop without a failure: fetch, hash, change flag, links,
\* save_html (by the upload, or by the update when the upload raised), the
\* children.
BT_Node ==
  /\ bt.pc = "level"
  /\ LET n == Head(bt.level)
         u == bt.nodes[n].url
     IN /\ Navigable(u)
        /\ \E html \in Served(u), links \in LinkLists, byUpdate \in BOOLEAN :
             /\ byUpdate => faults < MaxFaults
             /\ faults' = IF byUpdate THEN faults + 1 ELSE faults
             /\ LET saved == [bt EXCEPT
                                !.nodes[n] = [Hashed(@, html, bt.previous_hashes)
                                                EXCEPT !.html_path = Filename(bt.job_sync_id, u)],
                                !.links = ResolvedLinks(u, links),
                                !.blobs = Upload(@, Filename(bt.job_sync_id, u), html)]
                IN bt' = NodeDone(IF AddsChildren(bt.current_depth)
                                    THEN AddChildren(saved, n, ResolvedLinks(u, links))
                                    ELSE saved)
  /\ UNCHANGED <<pipelineVarsButFaults, hc, ep, ck>>

\* The queue is empty: the browser is closed and the root returned.
BT_Return ==
  /\ bt.pc = "queue" /\ bt.queue = <<>>
  /\ bt' = [bt EXCEPT !.pc = "done"]
  /\ UNCHANGED <<pipelineVars, hc, ep, ck>>

\* The two calls of generate_content_hash before they are made.
IdleHasher == [pc |-> "idle", html1 |-> <<>>, url1 |-> <<>>, html2 |-> <<>>, url2 |-> <<>>,
               hash1 |-> NoHash, hash2 |-> NoHash]

\* The documents and the URLs the two calls are made with: up to
\* MaxElements elements, kept or decomposed, whose texts differ in case, in
\* whitespace or in their characters.
HashElements ==
  [tag : {"p", "nav"}, text : {<<"A">>, <<"a", " ">>, <<"|", "a">>, <<"B", "\n", "a">>}]

HashHtmls == UNION {[1..k -> HashElements] : k \in 0..MaxElements}

HashUrls == {<<"https:", "//", "h", "/p">>, <<"https:", "//", "h", "/p", "|">>,
             <<"https:", "//", "h", "/q">>}

\* hash1 = generate_content_hash(html1, url1); hash2 likewise.
HC_Hash ==
  /\ hc.pc = "ready"
  /\ hc' = [hc EXCEPT !.pc = "hashed",
                      !.hash1 = generate_content_hash(hc.html1, hc.url1),
                      !.hash2 = generate_content_hash(hc.html2, hc.url2)]
  /\ UNCHANGED <<pipelineVars, bt, ep, ck>>

(***************************************************************************)
(* find_assignments and AssignmentExtractor (one store or oracle call is   *)
(* one step)                                                               *)
(***************************************************************************)
\* prevComplete records that an earlier attempt of the same task had dealt
\* with every node of the tree when it was cut off.
\* skipped counts the nodes of this attempt whose handler caught an error.
IdleExtractor == [pc |-> "idle", prior |-> {}, nodes |-> <<>>, recs |-> <<>>,
                  path |-> NoPath, target |-> 0, newPaths |-> <<>>,
                  prevComplete |-> FALSE, skipped |-> 0]

\* Every node of the tree has been dealt with.
AllNodesDone(e) == e.pc = "page" /\ e.nodes = <<>>

\* Variant: collect_nodes without the content_changed test.
NodesToProcessAll(tree) == tree

\* collect_nodes: the nodes with content_changed, in traversal order.
NodesToProcess(tree) == SelectSeq(tree, LAMBDA n : n.content_changed)

\* The titles of the rows assignments.select("title, description").eq("course_id", c).
CourseTitles(c) == {assignments[k].title : k \in {n \in 1..Len(assignments) : assignments[n].course_id = c}}

\* The reply of the extraction oracle for a page, given the context it is
\* shown: one record per title of the page.  The oracle of the model is the
\* deterministic one: it marks as repeated exactly the titles of its context.
OracleReplies(url, prior) ==
  LET ts == PageTitles(url)
  IN {[k \in 1..Len(ts) |-> [title |-> ts[k], repeated |-> ts[k] \in prior]]}

\* find_existing_assignment: the rows .eq("title", title) selects; the caller
\* takes data[0], and the select states no order.
ExistingAssignments(title) == {k \in 1..Len(assignments) : assignments[k].title = title}

\* create_new_assignment: the row inserted.
NewAssignment(title, path, j, c) ==
  [course_id |-> c, title |-> title, source_page_paths |-> <<path>>,
   job_sync_id |-> j, chosen_due_date_id |-> 0]

\* Variant: the membership test that never finds the path.
InSeqNever(x, s) == FALSE

\* html_path not in current_paths
InSeq(x, s) == \E k \in 1..Len(s) : s[k] = x

\* The record at the head of recs is dealt with: on to the next record, or to
\* the next node when the page has no more.
RecordDone(e) ==
  IF Len(e.recs) > 1
    THEN [e EXCEPT !.pc = "rec", !.recs = Tail(@), !.target = 0, !.newPaths = <<>>]
    ELSE [e EXCEPT !.pc = "page", !.recs = <<>>, !.nodes = Tail(@), !.path = NoPath,
                   !.target = 0, !.newPaths = <<>>]

AssignOk(j) == [job_sync_id |-> j, success |-> TRUE, error_message |-> ""]

AssignCaught(j, err) == [job_sync_id |-> j, success |-> FALSE, error_message |-> err]

\* Variant: a job sync without a scraped tree counts as nothing to do and
\* the activity reports success.
FA_BeginLenient(i) ==
  /\ i \in DOMAIN aAct /\ aAct[i].st = "pending"
  /\ IF jobSyncs[jobSyncIds[i]].scraped_tree = NoTree
       THEN /\ aAct' = [aAct EXCEPT ![i] = ActivityReturn(@, AssignOk(jobSyncIds[i]))]
            /\ ex' = ex
       ELSE /\ aAct' = [aAct EXCEPT ![i].st = "running"]
            /\ ex' = [ex EXCEPT ![i] = [@ EXCEPT !.pc = "prior",
                         !.nodes = NodesToProcess(jobSyncs[jobSyncIds[i]].scraped_tree)]]
  /\ UNCHANGED <<enrolled, bt, hc, ep, ck, store, wfPc, jobSyncIds, cj, cAct, dAct, dd,
                 scrapeResults, assignmentResults, dueDateResults, wfResult, faults>>

\* The attempt starts: read the job sync; without a scraped tree raise, which
\* the activity's handler turns into a failed AssignmentResult.
FA_Begin(i) ==
  /\ i \in DOMAIN aAct /\ aAct[i].st = "pending"
  /\ IF jobSyncs[jobSyncIds[i]].scraped_tree = NoTree
       THEN /\ aAct' = [aAct EXCEPT ![i] = ActivityReturn(@, AssignCaught(jobSyncIds[i], "No scraped tree found"))]
            /\ ex' = ex
       ELSE /\ aAct' = [aAct EXCEPT ![i].st = "running"]
            /\ ex' = [ex EXCEPT ![i] = [@ EXCEPT !.pc = "prior",
                         !.nodes = NodesToProcess(jobSyncs[jobSyncIds[i]].scraped_tree)]]
  /\ UNCHANGED <<enrolled, bt, hc, ep, ck, store, wfPc, jobSyncIds, cj, cAct, dAct, dd,
                 scrapeResults, assignmentResults, dueDateResults, wfResult, faults>>

\* extract_all_assignments: read course_id and ALL previous assignments of
\* the course, once, before the loop over the pages; without a course_id
\* nothing is selected (if self.supabase and course_id).
EX_LoadPrior(i) ==
  /\ i \in DOMAIN aAct /\ aAct[i].st = "running" /\ ex[i].pc = "prior"
  /\ ex' = [ex EXCEPT ![i].pc = "page",
                      ![i].prior = IF jobSyncs[jobSyncIds[i]].course_id = NoCourse
                                     THEN {}
                                     ELSE CourseTitles(jobSyncs[jobSyncIds[i]].course_id)]
  /\ UNCHANGED <<enrolled, bt, hc, ep, ck, store, wfPc, jobSyncIds, cj, cAct, aAct, dAct, dd,
                 scrapeResults, assignmentResults, dueDateResults, wfResult, faults>>

\* extract_assignments_from_page for the next node: download the page, ask
\* the oracle with the context loaded before the loop.  A node without
\* html_path raises in the download and is skipped.
EX_Page(i) ==
  /\ i \in DOMAIN aAct /\ aAct[i].st = "running" /\ ex[i].pc = "page" /\ ex[i].nodes # <<>>
  /\ LET node == Head(ex[i].nodes)
     IN IF node.html_path = NoPath
          THEN ex' = [ex EXCEPT ![i].nodes = Tail(@)]
          ELSE \E recs \in OracleReplies(node.url, ex[i].prior) :
                 ex' = [ex EXCEPT ![i].pc = "rec", ![i].recs = recs, ![i].path = node.html_path]
  /\ UNCHANGED <<enrolled, bt, hc, ep, ck, store, wfPc, jobSyncIds, cj, cAct, aAct, dAct, dd,
                 scrapeResults, assignmentResults, dueDateResults, wfResult, faults>>

\* The download or the oracle call of the next node raises: logged, the node
\* is skipped.
EX_PageError(i) ==
  /\ i \in DOMAIN aAct /\ aAct[i].st = "running" /\ ex[i].pc = "page" /\ ex[i].nodes # <<>>
  /\ faults < MaxFaults
  /\ faults' = faults + 1
  /\ ex' = [ex EXCEPT ![i].nodes = Tail(@), ![i].skipped = @ + 1]
  /\ UNCHANGED <<enrolled, bt, hc, ep, ck, store, wfPc, jobSyncIds, cj, cAct, aAct, dAct, dd,
                 scrapeResults, assignmentResults, dueDateResults, wfResult>>

\* handle_assignment_database_update for the next record of the page.
EX_Record(i) ==
  /\ i \in DOMAIN aAct /\ aAct[i].st = "running" /\ ex[i].pc = "rec" /\ ex[i].recs # <<>>
  /\ LET r == Head(ex[i].recs)
         j == jobSyncIds[i]
         create == /\ assignments' = Append(assignments,
                         NewAssignment(r.title, ex[i].path, j, jobSyncs[j].course_id))
                   /\ ex' = [ex EXCEPT ![i] = RecordDone(@)]
     IN IF r.repeated /\ ExistingAssignments(r.title) # {}
          THEN \E m \in ExistingAssignments(r.title) :
                 /\ assignments' = assignments
                 /\ ex' = IF InSeq(ex[i].path, assignments[m].source_page_paths)
                            THEN [ex EXCEPT ![i] = RecordDone(@)]
                            ELSE [ex EXCEPT ![i].pc = "update", ![i].target = m,
                                    ![i].newPaths = Append(assignments[m].source_page_paths, ex[i].path)]
          ELSE create
  /\ UNCHANGED <<enrolled, bt, hc, ep, ck, groups, jobSyncs, dueDates, wfPc, jobSyncIds, cj,
                 cAct, aAct, dAct, dd, scrapeResults, assignmentResults, dueDateResults,
                 wfResult, faults>>

\* assignments.update({"source_page_paths": updated_paths}).eq("id", existing id)
EX_Update(i) ==
  /\ i \in DOMAIN aAct /\ aAct[i].st = "running" /\ ex[i].pc = "update"
  /\ assignments' = [assignments EXCEPT ![ex[i].target].source_page_paths = ex[i].newPaths]
  /\ ex' = [ex EXCEPT ![i] = RecordDone(@)]
  /\ UNCHANGED <<enrolled, bt, hc, ep, ck, groups, jobSyncs, dueDates, wfPc, jobSyncIds, cj,
                 cAct, aAct, dAct, dd, scrapeResults, assignmentResults, dueDateResults,
                 wfResult, faults>>

\* A store call of handle_assignment_database_update raises: logged, the
\* record is dropped.
EX_RecordError(i) ==
  /\ i \in DOMAIN aAct /\ aAct[i].st = "running" /\ ex[i].pc \in {"rec", "update"}
  /\ faults < MaxFaults
  /\ faults' = faults + 1
  /\ ex' = [ex EXCEPT ![i] = RecordDone(@)]
  /\ UNCHANGED <<enrolled, bt, hc, ep, ck, store, wfPc, jobSyncIds, cj, cAct, aAct, dAct, dd,
                 scrapeResults, assignmentResults, dueDateResults, wfResult>>

\* Variant: find_assignments without the assignment to result.assignment_ids.
FA_FinishWithoutAssignmentIds(i) ==
  /\ i \in DOMAIN aAct /\ aAct[i].st = "running" /\ AllNodesDone(ex[i])
  /\ aAct' = [aAct EXCEPT ![i] = ActivityReturn(@, AssignOk(jobSyncIds[i]))]
  /\ ex' = [ex EXCEPT ![i] = IdleExtractor]
  /\ UNCHANGED <<enrolled, bt, hc, ep, ck, store, wfPc, jobSyncIds, cj, cAct, dAct, dd,
                 scrapeResults, assignmentResults, dueDateResults, wfResult, faults>>

\* All nodes done: select the ids of the course's assignments, build the
\* AssignmentResult with success=True, then result.assignment_ids = ...
\* (activities.py:320).  AssignmentResult (shared.py:35-41) is a pydantic
\* BaseModel that declares no field assignment_ids, and BaseModel.__setattr__
\* raises ValueError for a name that is not a field: the handler of the
\* activity catches it and returns the failed AssignmentResult.  Without a
\* course_id the select .eq("course_id", None) may be refused by the store
\* before that, with the same end.
FA_Finish(i) ==
  /\ i \in DOMAIN aAct /\ aAct[i].st = "running" /\ AllNodesDone(ex[i])
  /\ \E err \in {"ValueError", "Exception"} :
       /\ err = "Exception" => jobSyncs[jobSyncIds[i]].course_id = NoCourse
       /\ aAct' = [aAct EXCEPT ![i] = ActivityReturn(@, AssignCaught(jobSyncIds[i], err))]
  /\ ex' = [ex EXCEPT ![i] = IdleExtractor]
  /\ UNCHANGED <<enrolled, bt, hc, ep, ck, store, wfPc, jobSyncIds, cj, cAct, dAct, dd,
                 scrapeResults, assignmentResults, dueDateResults, wfResult, faults>>

\* A store call outside the per-page handler raises (the selects before the
\* loop, the select after it): the activity's handler returns a failed result.
FA_StoreError(i) ==
  /\ i \in DOMAIN aAct /\ aAct[i].st = "running"
  /\ IF ex[i].pc = "page" THEN AllNodesDone(ex[i]) ELSE ex[i].pc = "prior"
  /\ faults < MaxFaults
  /\ faults' = faults + 1
  /\ aAct' = [aAct EXCEPT ![i] = ActivityReturn(@, AssignCaught(jobSyncIds[i], "Exception"))]
  /\ ex' = [ex EXCEPT ![i] = IdleExtractor]
  /\ UNCHANGED <<enrolled, bt, hc, ep, ck, store, wfPc, jobSyncIds, cj, cAct, dAct, dd,
                 scrapeResults, assignmentResults, dueDateResults, wfResult>>

\* The attempt exceeds start_to_close_timeout (3 min) or its worker dies: the
\* writes made so far stay, the locals are lost, the retry policy decides.
FA_Timeout(i) ==
  /\ i \in DOMAIN aAct /\ aAct[i].st = "running" /\ faults < MaxFaults
  /\ faults' = faults + 1
  /\ aAct' = [aAct EXCEPT ![i] = ActivityFailure(@, "TimeoutError")]
  /\ ex' = [ex EXCEPT ![i] = [IdleExtractor EXCEPT !.prevComplete = AllNodesDone(ex[i])]]
  /\ UNCHANGED <<enrolled, bt, hc, ep, ck, store, wfPc, jobSyncIds, cj, cAct, dAct, dd,
                 scrapeResults, assignmentResults, dueDateResults, wfResult>>

(***************************************************************************)
(* find_due_dates and DueDateFinder (the resolution of the assignments is  *)
(* one step, every store write of update_assignments_with_due_dates is one *)
(* step)                                                                   *)
(***************************************************************************)
\* What extract_single_due_date yields for one assignment: a due date with
\* an ISO date, a due date whose date is in "human-readable format" (the
\* field AssignmentDueDate.date admits both), a due date whose date string
\* is empty, or None (no content, oracle error, or the oracle's due_date is
\* null).
IsoDate == "2026-01-15"
HumanDate == "next Friday"
EmptyDate == ""
NoDueDate == "None"

\* rows and dates keep what the last attempt selected and resolved.
IdleFinder == [pc |-> "idle", rows |-> <<>>, dates |-> <<>>, todo |-> <<>>, inserted |-> 0]

\* assignments.select("*").eq("course_id", course_id): the workflow passes no
\* assignment_ids, so the activity takes every assignment of the course.
CourseAssignments(c) ==
  SelectSeq([k \in 1..Len(assignments) |-> k], LAMBDA k : assignments[k].course_id = c)

\* The assignments of a resolution for which the oracle gave no ISO date.
Undated(res) == {k \in DOMAIN res : res[k] # IsoDate}

\* DueDateFinder.find_due_dates, the loop: one outcome per assignment, at
\* most budget of them without an ISO date.
Resolutions(rows, budget) ==
  {res \in [1..Len(rows) -> {IsoDate, HumanDate, EmptyDate, NoDueDate}] :
     Cardinality(Undated(res)) <= budget}

\* validate_due_dates builds AssignmentDueDate(date=None) for an assignment
\* without an entry; the model declares date: str, so the constructor raises.
ValidationRaises(res) == \E k \in DOMAIN res : res[k] = NoDueDate

\* update_assignments_with_due_dates writes only the entries with a
\* non-empty date (if due_date.date).
DatedEntries(rows, res) ==
  LET ks == SelectSeq([k \in 1..Len(rows) |-> k], LAMBDA k : res[k] # EmptyDate /\ res[k] # NoDueDate)
  IN [n \in 1..Len(ks) |-> [assignment_id |-> rows[ks[n]], date |-> res[ks[n]]]]

DueOk(j) == [job_sync_id |-> j, success |-> TRUE, error_message |-> ""]

DueCaught(j, err) == [job_sync_id |-> j, success |-> FALSE, error_message |-> err]

\* The attempt up to the first write: select the assignments of the course
\* (none: success; without a course_id the select .eq("course_id", None)
\* is refused or matches nothing), resolve each, validate.  A raise in validate_due_dates
\* reaches the activity's handler, which returns a failed DueDateResult
\* before any write.
FD_FindDueDates(i) ==
  /\ i \in DOMAIN dAct /\ dAct[i].st = "pending"
  /\ LET j    == jobSyncIds[i]
         rows == CourseAssignments(jobSyncs[j].course_id)
     IN IF jobSyncs[j].course_id = NoCourse
          THEN /\ \E r \in {DueOk(j), DueCaught(j, "Exception")} :
                    dAct' = [dAct EXCEPT ![i] = ActivityReturn(@, r)]
               /\ dd' = [dd EXCEPT ![i] = IdleFinder]
               /\ faults' = faults
        ELSE IF rows = <<>>
          THEN /\ dAct' = [dAct EXCEPT ![i] = ActivityReturn(@, DueOk(j))]
               /\ dd' = [dd EXCEPT ![i] = IdleFinder]
               /\ faults' = faults
          ELSE \E res \in Resolutions(rows, MaxFaults - faults) :
                 /\ faults' = faults + Cardinality(Undated(res))
                 /\ IF ValidationRaises(res)
                      THEN /\ dAct' = [dAct EXCEPT ![i] = ActivityReturn(@, DueCaught(j, "ValidationError"))]
                           /\ dd' = [dd EXCEPT ![i] = [IdleFinder EXCEPT !.rows = rows, !.dates = res]]
                      ELSE /\ dAct' = [dAct EXCEPT ![i].st = "running"]
                           /\ dd' = [dd EXCEPT ![i] = [IdleFinder EXCEPT !.pc = "insert",
                                        !.rows = rows, !.dates = res, !.todo = DatedEntries(rows, res)]]
  /\ UNCHANGED <<enrolled, bt, hc, ep, ck, store, wfPc, jobSyncIds, cj, cAct, aAct,
                 ex, scrapeResults, assignmentResults, dueDateResults, wfResult>>

\* Variant: the insert is put off and the id the row would get is handed to
\* the update of the assignment.
FD_InsertDeferred(i) ==
  /\ i \in DOMAIN dAct /\ dAct[i].st = "running" /\ dd[i].pc = "insert" /\ dd[i].todo # <<>>
  /\ dd' = [dd EXCEPT ![i].pc = "pin", ![i].inserted = Len(dueDates) + 1]
  /\ UNCHANGED <<enrolled, bt, hc, ep, ck, store, wfPc, jobSyncIds, cj, cAct, aAct, dAct, ex,
                 scrapeResults, assignmentResults, dueDateResults, wfResult, faults>>

\* due_dates.insert(due_date_record) for the next entry; the assignment is
\* updated only if the reply carries the row.
FD_Insert(i) ==
  /\ i \in DOMAIN dAct /\ dAct[i].st = "running" /\ dd[i].pc = "insert" /\ dd[i].todo # <<>>
  /\ \E reply \in IF faults < MaxFaults THEN {"row", "empty"} ELSE {"row"} :
       IF reply = "row"
         THEN /\ dueDates' = Append(dueDates, Head(dd[i].todo))
              /\ dd' = [dd EXCEPT ![i].pc = "pin", ![i].inserted = Len(dueDates) + 1]
              /\ faults' = faults
         ELSE /\ dueDates' = dueDates
              /\ dd' = [dd EXCEPT ![i].todo = Tail(@)]
              /\ faults' = faults + 1
  /\ UNCHANGED <<enrolled, bt, hc, ep, ck, groups, jobSyncs, assignments, wfPc, jobSyncIds, cj,
                 cAct, aAct, dAct, ex, scrapeResults, assignmentResults, dueDateResults,
                 wfResult>>

\* assignments.update({"chosen_due_date_id": due_date_id}).eq("id", assignment_id)
FD_Pin(i) ==
  /\ i \in DOMAIN dAct /\ dAct[i].st = "running" /\ dd[i].pc = "pin"
  /\ assignments' = [assignments EXCEPT
                       ![Head(dd[i].todo).assignment_id].chosen_due_date_id = dd[i].inserted]
  /\ dd' = [dd EXCEPT ![i].pc = "insert", ![i].todo = Tail(@), ![i].inserted = 0]
  /\ UNCHANGED <<enrolled, bt, hc, ep, ck, groups, jobSyncs, dueDates, wfPc, jobSyncIds, cj,
                 cAct, aAct, dAct, ex, scrapeResults, assignmentResults, dueDateResults,
                 wfResult, faults>>

\* Every entry written: return DueDateResult(success=True).
FD_Finish(i) ==
  /\ i \in DOMAIN dAct /\ dAct[i].st = "running" /\ dd[i].pc = "insert" /\ dd[i].todo = <<>>
  /\ dAct' = [dAct EXCEPT ![i] = ActivityReturn(@, DueOk(jobSyncIds[i]))]
  /\ dd' = [dd EXCEPT ![i].pc = "idle"]
  /\ UNCHANGED <<enrolled, bt, hc, ep, ck, store, wfPc, jobSyncIds, cj, cAct, aAct,
                 ex, scrapeResults, assignmentResults, dueDateResults, wfResult, faults>>

\* A store write of update_assignments_with_due_dates raises: the writes
\* made so far stay, the activity's handler returns a failed DueDateResult.
FD_StoreError(i) ==
  /\ i \in DOMAIN dAct /\ dAct[i].st = "running" /\ dd[i].todo # <<>>
  /\ faults < MaxFaults
  /\ faults' = faults + 1
  /\ dAct' = [dAct EXCEPT ![i] = ActivityReturn(@, DueCaught(jobSyncIds[i], "Exception"))]
  /\ dd' = [dd EXCEPT ![i].pc = "idle", ![i].todo = <<>>, ![i].inserted = 0]
  /\ UNCHANGED <<enrolled, bt, hc, ep, ck, store, wfPc, jobSyncIds, cj, cAct, aAct, ex,
                 scrapeResults, assignmentResults, dueDateResults, wfResult>>

\* The attempt exceeds start_to_close_timeout (3 min) or its worker dies: the
\* writes made so far stay, the locals are lost, the retry policy decides.
FD_Timeout(i) ==
  /\ i \in DOMAIN dAct /\ dAct[i].st \in {"pending", "running"} /\ faults < MaxFaults
  /\ faults' = faults + 1
  /\ dAct' = [dAct EXCEPT ![i] = ActivityFailure(@, "TimeoutError")]
  /\ dd' = [dd EXCEPT ![i] = IdleFinder]
  /\ UNCHANGED <<enrolled, bt, hc, ep, ck, store, wfPc, jobSyncIds, cj, cAct, aAct, ex,
                 scrapeResults, assignmentResults, dueDateResults, wfResult>>

(***************************************************************************)
(* mark_job_sync_group_complete: registered with the worker                *)
(* (run_worker.py:59); no step of CourseSyncWorkflow schedules it.         *)
(***************************************************************************)
MarkJobSyncGroupComplete(g) == [groups EXCEPT ![g].completed_at = TRUE]

(***************************************************************************)
(* CourseSyncWorkflow                                                      *)
(***************************************************************************)
NoPipelineResult ==
  [job_sync_ids |-> <<>>, scrape_results |-> <<>>, assignment_results |-> <<>>,
   due_date_results |-> <<>>, total_success |-> FALSE, total_errors |-> 0]

\* for job_sync_id in job_sync_ids: tasks.append(execute_activity_method(...))
ScheduleTasks(ids) == [i \in 1..Len(ids) |-> NewTask]

\* Variant: resume as soon as one task has ended (asyncio.wait with
\* FIRST_COMPLETED in place of gather).
GatherReadyFirstCompleted(acts) == \E i \in DOMAIN acts : Finished(acts[i])

\* await asyncio.gather(*tasks, return_exceptions=True) resumes once every
\* task has returned or raised.
GatherReady(acts) == \A i \in DOMAIN acts : Finished(acts[i])

\* asyncio.gather(..., return_exceptions=True)
ReturnExceptions == TRUE

\* Variant: gather without return_exceptions.
GatherRaisesWithoutFlag(acts) == \E i \in DOMAIN acts : acts[i].st = "raised"

\* gather raises the first exception of a task only without
\* return_exceptions; _execute_*_activities then logs and re-raises, and so
\* does run.
GatherRaises(acts) == ~ReturnExceptions /\ \E i \in DOMAIN acts : acts[i].st = "raised"

\* Variant: the loop after gather skips the exceptions instead of turning
\* them into failed results.
GatherResultsSkipRaised(ids, acts) ==
  LET kept == SelectSeq([i \in 1..Len(ids) |-> i], LAMBDA i : acts[i].st # "raised")
  IN [k \in 1..Len(kept) |-> acts[kept[k]].result]

\* The loop after gather: a failed result built from job_sync_ids[i] for an
\* exception, the activity's own result otherwise, in task order.
GatherResults(ids, acts) ==
  [i \in 1..Len(ids) |->
     IF acts[i].st = "raised"
       THEN [job_sync_id |-> ids[i], success |-> FALSE, error_message |-> acts[i].result.error_message]
       ELSE acts[i].result]

Failures(results) == Cardinality({i \in DOMAIN results : ~results[i].success})

\* _count_errors
CountErrors(sr, ar, dr) == Failures(sr) + Failures(ar) + Failures(dr)

\* create_sync_jobs returned: an empty list ends the run with a successful
\* empty result; otherwise the scrape tasks are scheduled.
Run_CreateReturned ==
  /\ wfPc = "create" /\ cj.st = "returned"
  /\ jobSyncIds' = cj.result
  /\ IF cj.result = <<>>
       THEN /\ wfPc' = "done"
            /\ wfResult' = [NoPipelineResult EXCEPT !.total_success = TRUE]
            /\ cAct' = cAct
       ELSE /\ wfPc' = "scrape"
            /\ wfResult' = wfResult
            /\ cAct' = ScheduleTasks(cj.result)
  /\ UNCHANGED <<enrolled, bt, hc, ep, ck, store, cj, aAct, dAct, dd, ex, scrapeResults,
                 assignmentResults, dueDateResults, faults>>

\* create_sync_jobs failed after its last attempt: run logs and re-raises.
Run_CreateRaised ==
  /\ wfPc = "create" /\ cj.st = "raised"
  /\ wfPc' = "failed"
  /\ UNCHANGED <<enrolled, bt, hc, ep, ck, store, jobSyncIds, cj, stageVars, wfResult, faults>>

\* _execute_scraping_activities returns; _execute_assignment_activities
\* schedules its tasks.
Run_GatherScrape ==
  /\ wfPc = "scrape" /\ GatherReady(cAct)
  /\ IF GatherRaises(cAct)
       THEN wfPc' = "failed" /\ UNCHANGED <<scrapeResults, aAct, ex>>
       ELSE /\ scrapeResults' = GatherResults(jobSyncIds, cAct)
            /\ aAct' = ScheduleTasks(jobSyncIds)
            /\ ex' = [i \in 1..Len(jobSyncIds) |-> IdleExtractor]
            /\ wfPc' = "assign"
  /\ UNCHANGED <<enrolled, bt, hc, ep, ck, store, jobSyncIds, cj, cAct, dAct, dd,
                 assignmentResults, dueDateResults, wfResult, faults>>

\* _execute_assignment_activities returns; _execute_due_date_activities
\* schedules its tasks.
Run_GatherAssign ==
  /\ wfPc = "assign" /\ GatherReady(aAct)
  /\ IF GatherRaises(aAct)
       THEN wfPc' = "failed" /\ UNCHANGED <<assignmentResults, dAct, dd>>
       ELSE /\ assignmentResults' = GatherResults(jobSyncIds, aAct)
            /\ dAct' = ScheduleTasks(jobSyncIds)
            /\ dd' = [i \in 1..Len(jobSyncIds) |-> IdleFinder]
            /\ wfPc' = "due"
  /\ UNCHANGED <<enrolled, bt, hc, ep, ck, store, jobSyncIds, cj, cAct, aAct, ex,
                 scrapeResults, dueDateResults, wfResult, faults>>

\* _execute_due_date_activities returns; run counts the errors and returns.
Run_GatherDue ==
  /\ wfPc = "due" /\ GatherReady(dAct)
  /\ IF GatherRaises(dAct)
       THEN wfPc' = "failed" /\ UNCHANGED <<dueDateResults, wfResult>>
       ELSE /\ dueDateResults' = GatherResults(jobSyncIds, dAct)
            /\ wfResult' =
                 [job_sync_ids |-> jobSyncIds,
                  scrape_results |-> scrapeResults,
                  assignment_results |-> assignmentResults,
                  due_date_results |-> GatherResults(jobSyncIds, dAct),
                  total_success |-> CountErrors(scrapeResults, assignmentResults,
                                                GatherResults(jobSyncIds, dAct)) = 0,
                  total_errors |-> CountErrors(scrapeResults, assignmentResults,
                                               GatherResults(jobSyncIds, dAct))]
            /\ wfPc' = "done"
  /\ UNCHANGED <<enrolled, bt, hc, ep, ck, store, jobSyncIds, cj, cAct, aAct, dAct, dd, ex,
                 scrapeResults, assignmentResults, faults>>

(***************************************************************************)
(* find_due_dates_endpoint (main.py), the multi-candidate way to due       *)
(* dates: find_due_dates of test/due_dates.py asks the oracle page by page *)
(* and collects every date it names for an assignment, the endpoint        *)
(* inserts them all, and select_best_due_date picks the one to pin.        *)
(***************************************************************************)
\* datetime.isoformat
isoformat(dt) ==
  CASE dt = <<2026, 1, 15>> -> "2026-01-15T00:00:00"
    [] dt = <<2026, 2, 1>>  -> "2026-02-01T00:00:00"

\* The dates (datetime.datetime) the pages may yield for one assignment, in
\* page order.
CandidateDates ==
  LET Datetimes == {<<2026, 1, 15>>, <<2026, 2, 1>>}
  IN {<<>>} \cup {<<d>> : d \in Datetimes} \cup {<<d, e>> : d \in Datetimes, e \in Datetimes}

\* get_assignments_from_db: the ids of the assignments of the job sync's
\* course that the job sync created.
get_assignments_from_db(job_sync_id) ==
  SelectSeq([k \in 1..Len(assignments) |-> k],
            LAMBDA k : /\ assignments[k].course_id = jobSyncs[job_sync_id].course_id
                       /\ assignments[k].job_sync_id = job_sync_id)

\* find_due_dates of test/due_dates.py: one DueDateResponse per date named,
\* the assignments in their order, the pages in theirs.
RECURSIVE DueDateResponses(_, _)
DueDateResponses(ids, dates) ==
  IF ids = <<>> THEN <<>>
  ELSE [k \in 1..Len(dates[Head(ids)]) |-> [assignment_id |-> Head(ids), date |-> dates[Head(ids)][k]]]
       \o DueDateResponses(Tail(ids), dates)

\* select_best_due_date: return due_dates[0]["id"], the statement before the
\* docstring; nothing after it runs.
select_best_due_date(due_dates) == due_dates[1].id

\* The request before it is made.
IdleEndpoint == [pc |-> "idle", sync_job_id |-> 0, assignments |-> <<>>, due_dates |-> <<>>,
                 created_due_dates |-> <<>>, todo |-> <<>>]

\* Up to the loop of inserts: the job sync's tree (none: 400), its
\* assignments (none: 404), the candidates find_due_dates returns.
EP_FindDueDates ==
  /\ ep.pc = "start"
  /\ LET ids == get_assignments_from_db(ep.sync_job_id)
     IN IF jobSyncs[ep.sync_job_id].scraped_tree = NoTree \/ ids = <<>>
          THEN ep' = [ep EXCEPT !.pc = "raised"]
          ELSE \E dates \in [{ids[k] : k \in 1..Len(ids)} -> CandidateDates] :
                 ep' = [ep EXCEPT !.pc = "insert", !.assignments = ids,
                                  !.due_dates = DueDateResponses(ids, dates)]
  /\ UNCHANGED <<pipelineVars, bt, hc, ck>>

\* due_dates.insert for the next candidate, date_certain True and
\* time_certain False whatever the page said; an insert that raises is
\* logged and the loop goes on.
EP_Insert ==
  /\ ep.pc = "insert" /\ ep.due_dates # <<>>
  /\ \E reply \in IF faults < MaxFaults THEN {"row", "raise"} ELSE {"row"} :
       IF reply = "row"
         THEN LET row == [assignment_id |-> Head(ep.due_dates).assignment_id,
                          date |-> isoformat(Head(ep.due_dates).date),
                          date_certain |-> TRUE, time_certain |-> FALSE]
              IN /\ dueDates' = Append(dueDates, row)
                 /\ ep' = [ep EXCEPT !.due_dates = Tail(@),
                             !.created_due_dates =
                                Append(@, [id |-> Len(dueDates) + 1, assignment_id |-> row.assignment_id,
                                           date |-> row.date])]
                 /\ faults' = faults
         ELSE /\ dueDates' = dueDates
              /\ ep' = [ep EXCEPT !.due_dates = Tail(@)]
              /\ faults' = faults + 1
  /\ UNCHANGED <<enrolled, bt, hc, ck, groups, jobSyncs, assignments, wfPc, jobSyncIds, cj,
                 stageVars, wfResult>>

\* Every candidate dealt with: on to the loop over the assignments.
EP_Group ==
  /\ ep.pc = "insert" /\ ep.due_dates = <<>>
  /\ ep' = [ep EXCEPT !.pc = "select", !.todo = ep.assignments]
  /\ UNCHANGED <<pipelineVars, bt, hc, ck>>

\* The next assignment: its created due dates, in the order of their
\* creation; if it has any, the best one is pinned.
EP_Select ==
  /\ ep.pc = "select" /\ ep.todo # <<>>
  /\ LET a == Head(ep.todo)
         assignment_due_dates == SelectSeq(ep.created_due_dates, LAMBDA d : d.assignment_id = a)
     IN assignments' = IF assignment_due_dates = <<>> THEN assignments
                       ELSE [assignments EXCEPT
                               ![a].chosen_due_date_id = select_best_due_date(assignment_due_dates)]
  /\ ep' = [ep EXCEPT !.todo = Tail(@)]
  /\ UNCHANGED <<enrolled, bt, hc, ck, groups, jobSyncs, dueDates, wfPc, jobSyncIds, cj,
                 stageVars, wfResult, faults>>

\* return {"message": "Due dates found and created successfully", ...}
EP_Return ==
  /\ ep.pc = "select" /\ ep.todo = <<>>
  /\ ep' = [ep EXCEPT !.pc = "returned"]
  /\ UNCHANGED <<pipelineVars, bt, hc, ck>>

(***************************************************************************)
(* ScraperV2.clean_cookies_for_playwright                                  *)
(*                                                                         *)
(* A cookie is a function from its field names to their values.  The value *)
(* of sameSite is a string of two tokens, its first letter and the rest.   *)
(***************************************************************************)
\* The records of a browser export: name and secure, and beside them some of
\* sameSite, hostOnly, storeId and session; what sameSite may hold.
ExportedCookies ==
  LET SameSiteValues ==
        { <<"n", "one">>, <<"N", "one">>, <<"l", "ax">>, <<"L", "AX">>, <<"S", "trict">>,
          <<"s", "trict">>, <<"u", "nspecified">>, <<"U", "nspecified">>,
          <<"n", "o_restriction">>, <<>>, <<"b", "ogus">> }
      ExportFields == {{}, {"hostOnly"}, {"sameSite"}, {"sameSite", "session"},
                       {"sameSite", "hostOnly", "storeId", "session"}}
  IN UNION {{[f \in {"name", "secure"} \cup fs |->
                CASE f = "name"     -> <<"sid">>
                  [] f = "secure"   -> <<"true">>
                  [] f = "sameSite" -> v
                  [] OTHER          -> <<"false">>] : v \in SameSiteValues} : fs \in ExportFields}

\* del d[key], d.pop(key, None)
Without(d, keys) == [f \in DOMAIN d \ keys |-> d[f]]

\* same_site = clean_cookie["sameSite"].lower()
LowerAll(s) == [k \in DOMAIN s |-> Lower(s[k])]

\* Variant: a sameSite the fetcher does not know is left as it is.
CleanSameSiteKeepUnknown(clean_cookie) ==
  IF "sameSite" \notin DOMAIN clean_cookie THEN clean_cookie
  ELSE LET same_site == LowerAll(clean_cookie["sameSite"])
       IN IF same_site \in {<<"u", "nspecified">>, <<"n", "o_restriction">>, <<>>}
            THEN Without(clean_cookie, {"sameSite"})
          ELSE IF same_site = <<"n", "one">> THEN [clean_cookie EXCEPT !["sameSite"] = <<"N", "one">>]
          ELSE IF same_site = <<"l", "ax">> THEN [clean_cookie EXCEPT !["sameSite"] = <<"L", "ax">>]
          ELSE IF same_site = <<"s", "trict">> THEN [clean_cookie EXCEPT !["sameSite"] = <<"S", "trict">>]
          ELSE clean_cookie

\* if "sameSite" in clean_cookie: ... (lines 195-206)
CleanSameSite(clean_cookie) ==
  IF "sameSite" \notin DOMAIN clean_cookie THEN clean_cookie
  ELSE LET same_site == LowerAll(clean_cookie["sameSite"])
       IN IF same_site \in {<<"u", "nspecified">>, <<"n", "o_restriction">>, <<>>}
            THEN Without(clean_cookie, {"sameSite"})
          ELSE IF same_site = <<"n", "one">> THEN [clean_cookie EXCEPT !["sameSite"] = <<"N", "one">>]
          ELSE IF same_site = <<"l", "ax">> THEN [clean_cookie EXCEPT !["sameSite"] = <<"L", "ax">>]
          ELSE IF same_site = <<"s", "trict">> THEN [clean_cookie EXCEPT !["sameSite"] = <<"S", "trict">>]
          ELSE Without(clean_cookie, {"sameSite"})

\* clean_cookies_for_playwright: each cookie copied, the copy cleaned.
clean_cookies_for_playwright(cookies) ==
  [k \in DOMAIN cookies |-> Without(CleanSameSite(cookies[k]), {"hostOnly", "storeId", "session"})]

\* The call before it is made.
IdleCookies == [pc |-> "idle", cookies |-> <<>>, cleaned |-> <<>>]

\* cleaned = clean_cookies_for_playwright(cookies); the records of cookies
\* are copied (cookie.copy()), not written.
CK_Clean ==
  /\ ck.pc = "ready"
  /\ ck' = [ck EXCEPT !.pc = "returned", !.cleaned = clean_cookies_for_playwright(ck.cookies)]
  /\ UNCHANGED <<pipelineVars, bt, hc, ep>>

(***************************************************************************)
(* One run of the workflow                                                 *)
(***************************************************************************)
\* What the user may be enrolled in: nothing, a course without sources, a
\* course with two sources, a course with one source.
Enrollments == {{}, {"c3"}, {"c1"}, {"c2"}}

Init ==
  /\ enrolled \in Enrollments
  /\ groups = <<>> /\ jobSyncs = <<>> /\ assignments = <<>> /\ dueDates = <<>>
  /\ wfPc = "create"
  /\ jobSyncIds = <<>>
  /\ cj = NewCreateAttempt(1)
  /\ cAct = <<>> /\ aAct = <<>> /\ dAct = <<>> /\ ex = <<>> /\ dd = <<>>
  /\ scrapeResults = <<>> /\ assignmentResults = <<>> /\ dueDateResults = <<>>
  /\ wfResult = NoPipelineResult
  /\ faults = 0
  /\ bt = IdleCrawl /\ hc = IdleHasher /\ ep = IdleEndpoint /\ ck = IdleCookies

Positions == 1..Len(Sources)

Next ==
  \/ CJ_InsertGroup \/ CJ_Select \/ CJ_InsertJob \/ CJ_Return \/ CJ_Fail
  \/ Run_CreateReturned \/ Run_CreateRaised
  \/ Run_GatherScrape \/ Run_GatherAssign \/ Run_GatherDue
  \/ \E i \in Positions :
       \/ SC_Scrape(i) \/ SC_LaunchFailure(i) \/ SC_Timeout(i)
       \/ FA_Begin(i) \/ EX_LoadPrior(i) \/ EX_Page(i) \/ EX_PageError(i)
       \/ EX_Record(i) \/ EX_Update(i) \/ EX_RecordError(i)
       \/ FA_Finish(i) \/ FA_StoreError(i) \/ FA_Timeout(i)
       \/ FD_FindDueDates(i) \/ FD_Insert(i) \/ FD_Pin(i) \/ FD_Finish(i)
       \/ FD_StoreError(i) \/ FD_Timeout(i)

Spec == Init /\ [][Next]_vars

(***************************************************************************)
(* A later run of the workflow (a re-sync)                                 *)
(*                                                                         *)
(* The store holds what an earlier run without failures left for a user    *)
(* enrolled in c1 and c2, at a time when the site of s3 had page c only:   *)
(* job syncs 1, 2, 3 with their trees; HW1 of c1 found on pages a and b;   *)
(* HW1 and HW2 of c2 found on page c; find_due_dates of job syncs 1 and 2  *)
(* each inserted a due date for HW1 of c1, the later one is pinned.        *)
(***************************************************************************)
\* The pages of the earlier trees.
PriorPages == {"a", "b", "c"}

\* The hash an earlier tree holds for a page whose content has changed since.
OldContentHash(url) == <<"sha256", url, "old">>

\* The node Node.to_dict stored for a page in the tree of job sync j.
PriorNode(j, url, changed) ==
  [url |-> url, html_path |-> HtmlPath(j, url),
   content_hash |-> IF url \in changed THEN OldContentHash(url) ELSE ContentHash(url),
   content_changed |-> TRUE]

PriorGroups == <<[user_id |-> User, completed_at |-> FALSE]>>

\* Table job_syncs; changed is the set of pages whose content differs now.
PriorJobSyncs(changed) ==
  <<[group |-> 1, course_id |-> "c1", source_id |-> "s1", scraped_tree |-> <<PriorNode(1, "a", changed)>>],
    [group |-> 1, course_id |-> "c1", source_id |-> "s2", scraped_tree |-> <<PriorNode(2, "b", changed)>>],
    [group |-> 1, course_id |-> "c2", source_id |-> "s3", scraped_tree |-> <<PriorNode(3, "c", changed)>>]>>

PriorAssignments ==
  <<[course_id |-> "c1", title |-> "HW1", source_page_paths |-> <<HtmlPath(1, "a"), HtmlPath(2, "b")>>,
     job_sync_id |-> 1, chosen_due_date_id |-> 2],
    [course_id |-> "c2", title |-> "HW1", source_page_paths |-> <<HtmlPath(3, "c")>>,
     job_sync_id |-> 3, chosen_due_date_id |-> 3],
    [course_id |-> "c2", title |-> "HW2", source_page_paths |-> <<HtmlPath(3, "c")>>,
     job_sync_id |-> 3, chosen_due_date_id |-> 4]>>

PriorDueDates ==
  <<[assignment_id |-> 1, date |-> IsoDate], [assignment_id |-> 1, date |-> IsoDate],
    [assignment_id |-> 2, date |-> IsoDate], [assignment_id |-> 3, date |-> IsoDate]>>

\* The pages of the sources of a set of courses.
PagesOf(courseIds) ==
  UNION {{SitePages(SourcesOf(courseIds)[k])[n] : n \in 1..Len(SitePages(SourcesOf(courseIds)[k]))} :
           k \in 1..Len(SourcesOf(courseIds))}

InitResync ==
  /\ enrolled \in {{"c1"}, {"c2"}}
  /\ groups = PriorGroups
  /\ \E changed \in SUBSET (PagesOf(enrolled) \cap PriorPages) : jobSyncs = PriorJobSyncs(changed)
  /\ assignments = PriorAssignments
  /\ dueDates = PriorDueDates
  /\ wfPc = "create"
  /\ jobSyncIds = <<>>
  /\ cj = NewCreateAttempt(1)
  /\ cAct = <<>> /\ aAct = <<>> /\ dAct = <<>> /\ ex = <<>> /\ dd = <<>>
  /\ scrapeResults = <<>> /\ assignmentResults = <<>> /\ dueDateResults = <<>>
  /\ wfResult = NoPipelineResult
  /\ faults = 0
  /\ bt = IdleCrawl /\ hc = IdleHasher /\ ep = IdleEndpoint /\ ck = IdleCookies

SpecResync == InitResync /\ [][Next]_vars

(***************************************************************************)
(* A run after a sync that failed                                          *)
(*                                                                         *)
(* The user is enrolled in c2.  The store holds what the run above left,   *)
(* and the last sync of s3 before this run went wrong in one of two ways:  *)
(* its crawl failed, so that job sync 4 of s3 has no tree; or the crawl of *)
(* job sync 3 stored its tree and find_assignments did not extract page c, *)
(* so that c2 has no assignments.                                          *)
(***************************************************************************)
InitAfterFailure ==
  /\ enrolled = {"c2"}
  /\ \E changed \in SUBSET {"c"}, stage \in {"crawl", "assign"} :
       IF stage = "crawl"
         THEN /\ groups = PriorGroups \o PriorGroups
              /\ jobSyncs = Append(PriorJobSyncs(changed),
                               [group |-> 2, course_id |-> "c2", source_id |-> "s3",
                                scraped_tree |-> NoTree])
              /\ assignments = PriorAssignments
              /\ dueDates = PriorDueDates
         ELSE /\ groups = PriorGroups
              /\ jobSyncs = PriorJobSyncs(changed)
              /\ assignments = SubSeq(PriorAssignments, 1, 1)
              /\ dueDates = SubSeq(PriorDueDates, 1, 2)
  /\ wfPc = "create"
  /\ jobSyncIds = <<>>
  /\ cj = NewCreateAttempt(1)
  /\ cAct = <<>> /\ aAct = <<>> /\ dAct = <<>> /\ ex = <<>> /\ dd = <<>>
  /\ scrapeResults = <<>> /\ assignmentResults = <<>> /\ dueDateResults = <<>>
  /\ wfResult = NoPipelineResult
  /\ faults = 0
  /\ bt = IdleCrawl /\ hc = IdleHasher /\ ep = IdleEndpoint /\ ck = IdleCookies

SpecAfterFailure == InitAfterFailure /\ [][Next]_vars

(***************************************************************************)
(* A run during which a job sync loses its course                          *)
(*                                                                         *)
(* job_syncs.course_id is nullable: main.py:907-918 answers a job sync     *)
(* without course_id with "No course_id found for this job sync".  Here the *)
(* course_id of a job sync of the run is cleared by another client of the  *)
(* store after the crawl and before find_assignments starts.               *)
(***************************************************************************)
DB_ClearCourse(i) ==
  /\ wfPc = "assign" /\ i \in DOMAIN aAct /\ ~Started(aAct[i])
  /\ jobSyncs[jobSyncIds[i]].course_id # NoCourse
  /\ faults < MaxFaults
  /\ faults' = faults + 1
  /\ jobSyncs' = [jobSyncs EXCEPT ![jobSyncIds[i]].course_id = NoCourse]
  /\ UNCHANGED <<enrolled, bt, hc, ep, ck, groups, assignments, dueDates, wfPc, jobSyncIds, cj,
                 cAct, aAct, dAct, dd, ex, scrapeResults, assignmentResults,
                 dueDateResults, wfResult>>

NextDataInvariant == Next \/ \E i \in Positions : DB_ClearCourse(i)

SpecDataInvariant == Init /\ [][NextDataInvariant]_vars

(***************************************************************************)
(* One crawl of ScraperV2.build_tree, and two calls of the content hasher  *)
(***************************************************************************)
\* No workflow is running.
PipelineIdle ==
  /\ enrolled = {}
  /\ groups = <<>> /\ jobSyncs = <<>> /\ assignments = <<>> /\ dueDates = <<>>
  /\ wfPc = "idle"
  /\ jobSyncIds = <<>>
  /\ cj = NewCreateAttempt(1)
  /\ cAct = <<>> /\ aAct = <<>> /\ dAct = <<>> /\ ex = <<>> /\ dd = <<>>
  /\ scrapeResults = <<>> /\ assignmentResults = <<>> /\ dueDateResults = <<>>
  /\ wfResult = NoPipelineResult
  /\ faults = 0

InitCrawl ==
  /\ PipelineIdle
  /\ \E j \in CrawlJobSyncs, t \in PreviousTrees, b \in OldBlobs : bt = StartedCrawl(j, t, b)
  /\ hc = IdleHasher /\ ep = IdleEndpoint /\ ck = IdleCookies

NextCrawl ==
  BT_Level \/ BT_FetchError \/ BT_OracleError \/ BT_SaveError \/ BT_Node \/ BT_Return

SpecCrawl == InitCrawl /\ [][NextCrawl]_vars

InitHash ==
  /\ PipelineIdle
  /\ bt = IdleCrawl /\ ep = IdleEndpoint /\ ck = IdleCookies
  /\ \E h1 \in HashHtmls, h2 \in HashHtmls, u1 \in HashUrls, u2 \in HashUrls :
       hc = [IdleHasher EXCEPT !.pc = "ready", !.html1 = h1, !.url1 = u1,
                               !.html2 = h2, !.url2 = u2]

NextHash == HC_Hash

SpecHash == InitHash /\ [][NextHash]_vars

(***************************************************************************)
(* One request to find_due_dates_endpoint, and one call of                 *)
(* clean_cookies_for_playwright                                            *)
(***************************************************************************)
\* The store of the request: the job syncs and the assignments of an earlier
\* run, no due date yet; the request names a job sync of it.
InitEndpoint ==
  /\ enrolled = {}
  /\ groups = PriorGroups /\ jobSyncs = PriorJobSyncs({})
  /\ assignments = [a \in DOMAIN PriorAssignments |-> [PriorAssignments[a] EXCEPT !.chosen_due_date_id = 0]]
  /\ dueDates = <<>>
  /\ wfPc = "idle"
  /\ jobSyncIds = <<>>
  /\ cj = NewCreateAttempt(1)
  /\ cAct = <<>> /\ aAct = <<>> /\ dAct = <<>> /\ ex = <<>> /\ dd = <<>>
  /\ scrapeResults = <<>> /\ assignmentResults = <<>> /\ dueDateResults = <<>>
  /\ wfResult = NoPipelineResult
  /\ faults = 0
  /\ bt = IdleCrawl /\ hc = IdleHasher /\ ck = IdleCookies
  /\ \E j \in DOMAIN PriorJobSyncs({}) : ep = [IdleEndpoint EXCEPT !.pc = "start", !.sync_job_id = j]

NextEndpoint == EP_FindDueDates \/ EP_Insert \/ EP_Group \/ EP_Select \/ EP_Return

SpecEndpoint == InitEndpoint /\ [][NextEndpoint]_vars

InitCookies ==
  /\ PipelineIdle
  /\ bt = IdleCrawl /\ hc = IdleHasher /\ ep = IdleEndpoint
  /\ \E cookies \in UNION {[1..n -> ExportedCookies] : n \in 0..MaxCookies} :
       ck = [IdleCookies EXCEPT !.pc = "ready", !.cookies = cookies]

NextCookies == CK_Clean

SpecCookies == InitCookies /\ [][NextCookies]_vars

(***************************************************************************)
(* Properties                                                              *)
(***************************************************************************)
\* The positions of the run's job syncs.
Jobs == 1..Len(jobSyncIds)

\* The run returned a result for at least one job sync.
RunDone == wfPc = "done" /\ jobSyncIds # <<>>

\* C1: every JobSyncGroup the run created has completed_at set once the run
\* has returned, whatever the outcomes of the stage activities.
C1_GroupsCompleted ==
  RunDone => \A g \in DOMAIN groups : groups[g].completed_at

\* C2: when create_sync_jobs returns no job sync, the run schedules no stage
\* activity, marks the group it created complete and returns a successful
\* result with total_errors = 0.
C2_EmptyRunCompletes ==
  (wfPc = "done" /\ jobSyncIds = <<>>) =>
    /\ cAct = <<>> /\ aAct = <<>> /\ dAct = <<>>
    /\ wfResult.total_success /\ wfResult.total_errors = 0
    /\ groups[cj.group].completed_at

\* C3: for every job sync, find_assignments does not start before its
\* scrape_course has ended, and find_due_dates does not start before its
\* find_assignments has ended.
C3_StagesOrdered ==
  /\ \A i \in DOMAIN aAct : Started(aAct[i]) => (i \in DOMAIN cAct /\ Finished(cAct[i]))
  /\ \A i \in DOMAIN dAct : Started(dAct[i]) => (i \in DOMAIN aAct /\ Finished(aAct[i]))

\* Two job syncs, the due-date stage of the second one has started.
C3_Witness ==
  /\ Len(jobSyncIds) = 2
  /\ 2 \in DOMAIN dAct /\ Started(dAct[2])
  /\ cAct[1].attempt > 1

\* C4: a failed stage activity of one job sync does not fail the run (the
\* run raises only when create_sync_jobs did), and when the run returns,
\* every job sync has had its three activities run to their end, each
\* returned result being the one the run reports.
C4_FailureIsolated ==
  /\ wfPc = "failed" => cj.st = "raised"
  /\ RunDone =>
       \A i \in Jobs :
         /\ i \in DOMAIN cAct /\ Finished(cAct[i])
         /\ i \in DOMAIN aAct /\ Finished(aAct[i])
         /\ i \in DOMAIN dAct /\ Finished(dAct[i])
         /\ cAct[i].st = "returned" => wfResult.scrape_results[i] = cAct[i].result
         /\ aAct[i].st = "returned" => wfResult.assignment_results[i] = aAct[i].result
         /\ dAct[i].st = "returned" => wfResult.due_date_results[i] = dAct[i].result

\* The crawl of the first job sync failed; the crawl of the second one
\* succeeded, its extractor went through the tree and its due dates were
\* found.
C4_Witness ==
  /\ RunDone /\ Len(jobSyncIds) = 2
  /\ ~wfResult.scrape_results[1].success
  /\ wfResult.scrape_results[2].success
  /\ wfResult.assignment_results[2].error_message = "ValueError"
  /\ wfResult.due_date_results[2].success
  /\ \E a \in DOMAIN assignments : assignments[a].job_sync_id = jobSyncIds[2]

\* C5: when the run returns for a non-empty job_sync_ids, each of the three
\* result lists has one result per job sync, in the order of job_sync_ids,
\* result i carrying job_sync_ids[i], also for an activity that raised.
C5_OneResultPerJobSync ==
  RunDone =>
    \A rs \in {wfResult.scrape_results, wfResult.assignment_results,
               wfResult.due_date_results} :
      /\ Len(rs) = Len(jobSyncIds)
      /\ \A i \in 1..Len(rs) : rs[i].job_sync_id = jobSyncIds[i]

\* The run returned although the crawl of the first of two job syncs raised
\* after its last attempt.
C5_Witness ==
  /\ RunDone /\ Len(jobSyncIds) = 2
  /\ cAct[1].st = "raised"
  /\ wfResult.scrape_results[1].job_sync_id = jobSyncIds[1]
  /\ wfResult.scrape_results[2].success

\* The errors of a stage the retry policy is to retry.
RetriedErrors == {"BrowserLaunchError", "Exception", "TimeoutError"}

\* C6: a stage activity whose failure with a retryable error is recorded has
\* made all MaxAttempts attempts; a browser launch failure is such an error.
C6_StageErrorsRetried ==
  \A acts \in {cAct, aAct, dAct} :
    \A i \in DOMAIN acts :
      (Finished(acts[i]) /\ ~acts[i].result.success
         /\ acts[i].result.error_message \in RetriedErrors /\ Retryable(acts[i].result.error_message))
      => acts[i].attempt = MaxAttempts

\* The job sync at position i has no scraped tree.
NoTreeAt(i) == jobSyncs[jobSyncIds[i]].scraped_tree = NoTree

\* C7: for a job sync without a stored tree, find_assignments is still
\* called; it never enters the extractor, returns a failed result, and no
\* assignment row is created by it or carries a page path of it.
C7_NoTreeShortCircuits ==
  \A i \in DOMAIN aAct :
    NoTreeAt(i) =>
      /\ aAct[i].st # "running"
      /\ Finished(aAct[i]) => (aAct[i].st = "returned" /\ ~aAct[i].result.success)
      /\ wfPc \in {"due", "done"} => (Finished(aAct[i]) /\ ~assignmentResults[i].success)
      /\ \A a \in DOMAIN assignments :
           /\ assignments[a].job_sync_id # jobSyncIds[i]
           /\ \A k \in DOMAIN assignments[a].source_page_paths :
                assignments[a].source_page_paths[k][1] # jobSyncIds[i]

\* The short-circuit happened for the first job sync while the second one
\* extracted an assignment.
C7_Witness ==
  /\ RunDone /\ Len(jobSyncIds) = 2
  /\ NoTreeAt(1) /\ aAct[1].st = "returned" /\ ~wfResult.assignment_results[1].success
  /\ assignments # <<>>

\* C8: once create_sync_jobs has returned an id for every source, the store
\* holds one group of the user and one job sync per source of the user's
\* courses, and the ids returned are those job syncs.
C8_CreateJobsOnce ==
  (cj.st = "returned" /\ SourcesOf(enrolled) # <<>>
     /\ Len(cj.result) = Len(SourcesOf(enrolled))) =>
    /\ Len(groups) = 1
    /\ Len(jobSyncs) = Len(SourcesOf(enrolled))
    /\ \A k \in DOMAIN jobSyncs : jobSyncs[k].source_id = SourcesOf(enrolled)[k]
    /\ cj.result = [k \in DOMAIN jobSyncs |-> k]

\* C9: an attempt of find_assignments that runs the extractor again after an
\* attempt that had dealt with every page of the same tree (one job sync in
\* the run, that cut-off the only failure) changes no assignment row.
C9_RerunChangesNothing ==
  [][\A i \in DOMAIN aAct :
       (aAct[i].st = "running" /\ ex[i].prevComplete /\ Len(jobSyncIds) = 1 /\ faults = 1)
       => assignments' = assignments]_vars

\* C10: in a run with two job syncs of one course, no course holds two
\* assignment rows with the same title.
C10_TitleUniquePerCourse ==
  Len(jobSyncIds) = 2 =>
    \A a, b \in DOMAIN assignments :
      (a # b /\ assignments[a].course_id = assignments[b].course_id)
      => assignments[a].title # assignments[b].title

\* The set of the paths of a list.
PathSet(paths) == {paths[k] : k \in 1..Len(paths)}

\* C11: a run for one course never changes the source_page_paths of an
\* assignment of another course, whatever its title.
C11_OtherCoursesUntouched ==
  [][\A a \in DOMAIN assignments :
       assignments[a].course_id \notin enrolled
       => assignments'[a].source_page_paths = assignments[a].source_page_paths]_vars

\* C12: no step removes a path from the source_page_paths of an assignment.
C12_PathsOnlyGrow ==
  [][\A a \in DOMAIN assignments :
       PathSet(assignments[a].source_page_paths) \subseteq PathSet(assignments'[a].source_page_paths)]_vars

\* C13: no source_page_paths list holds a path twice.
C13_NoPathTwice ==
  \A a \in DOMAIN assignments :
    \A k, m \in DOMAIN assignments[a].source_page_paths :
      k # m => assignments[a].source_page_paths[k] # assignments[a].source_page_paths[m]

\* The entries of the store's source_page_paths lists that job sync j wrote.
PathsWrittenBy(j) ==
  {e \in (DOMAIN assignments) \X (1..(Len(assignments) + 4)) :
     /\ e[2] \in DOMAIN assignments[e[1]].source_page_paths
     /\ assignments[e[1]].source_page_paths[e[2]][1] = j}

\* An attempt of find_assignments appended the path of a changed page and
\* was cut off; the next attempt has processed the page again and found the
\* path present: the store still holds one entry written by the job sync.
C13_Witness ==
  \E i \in DOMAIN aAct :
    /\ aAct[i].st = "running" /\ aAct[i].attempt = 2 /\ faults = 1
    /\ ex[i].prevComplete /\ AllNodesDone(ex[i])
    /\ Len(jobSyncs[jobSyncIds[i]].scraped_tree) = 1
    /\ Cardinality(PathsWrittenBy(jobSyncIds[i])) = 1
    /\ assignments # PriorAssignments

\* C14: a page that already evidences an assignment counts as present when a
\* later sync crawls it again: no assignment lists two paths of one page.
C14_PageListedOnce ==
  \A a \in DOMAIN assignments :
    \A k, m \in DOMAIN assignments[a].source_page_paths :
      k # m => assignments[a].source_page_paths[k][2] # assignments[a].source_page_paths[m][2]

\* The node of the tree of job sync j stored under path.
NodesAt(j, path) ==
  {n \in DOMAIN jobSyncs[j].scraped_tree : jobSyncs[j].scraped_tree[n].html_path = path}

TitlesCreatedBy(j) ==
  {assignments[a].title : a \in {n \in DOMAIN assignments : assignments[n].job_sync_id = j}}

\* C16: when the extractor turns to its next page, the context it will pass
\* to the oracle holds every assignment its job sync has created so far.
C16_ContextFollowsRun ==
  \A i \in DOMAIN aAct :
    (aAct[i].st = "running" /\ ex[i].pc = "page" /\ ex[i].nodes # <<>>)
    => TitlesCreatedBy(jobSyncIds[i]) \subseteq ex[i].prior

\* Assignment a is pinned to a due date row of its own.
Pinned(a) ==
  /\ assignments[a].chosen_due_date_id \in DOMAIN dueDates
  /\ dueDates[assignments[a].chosen_due_date_id].assignment_id = a

\* C17: once find_due_dates has returned for a job sync in a run whose only
\* failures are the assignments it could not date, every assignment it was
\* given is pinned to a due date row of its own (a placeholder row when no
\* date was found).
C17_EveryAssignmentPinned ==
  \A i \in DOMAIN dAct :
    (dAct[i].st = "returned" /\ faults = Cardinality(Undated(dd[i].dates)))
    => \A k \in DOMAIN dd[i].rows : Pinned(dd[i].rows[k])

\* C18: when the only failures of a run are assignments that one
\* find_due_dates call could not date, the call reports success and every
\* assignment it did date is pinned to a due date row inserted by this run.
C18_SiblingsNotBlocked ==
  \A i \in DOMAIN dAct :
    (dAct[i].st = "returned" /\ Undated(dd[i].dates) # {}
       /\ faults = Cardinality(Undated(dd[i].dates)))
    => /\ dAct[i].result.success
       /\ \A k \in DOMAIN dd[i].rows :
            dd[i].dates[k] = IsoDate => Pinned(dd[i].rows[k])

\* No node of the trees of the run has content_changed.
NothingChanged ==
  \A i \in Jobs :
    /\ jobSyncs[jobSyncIds[i]].scraped_tree # NoTree
    /\ \A n \in DOMAIN jobSyncs[jobSyncIds[i]].scraped_tree :
         ~jobSyncs[jobSyncIds[i]].scraped_tree[n].content_changed

\* C19: a re-sync without failures in which no page has changed creates no
\* assignment, appends no path and leaves every chosen_due_date_id as it was.
C19_ResyncIsNoOp ==
  (RunDone /\ faults = 0 /\ NothingChanged) =>
    /\ Len(assignments) = Len(PriorAssignments)
    /\ \A a \in DOMAIN PriorAssignments :
         /\ assignments[a].source_page_paths = PriorAssignments[a].source_page_paths
         /\ assignments[a].chosen_due_date_id = PriorAssignments[a].chosen_due_date_id

\* C20: a chosen_due_date_id that is set names an existing due date row
\* whose assignment_id is the assignment; this holds in every state, so the
\* pointer is never written before the row.
C20_ChosenDueDateExists ==
  \A a \in DOMAIN assignments :
    assignments[a].chosen_due_date_id # 0 => Pinned(a)

\* An assignment is pinned to a row inserted by this run while a
\* find_due_dates has inserted a row it has not pinned yet.
C20_Witness ==
  /\ \E a \in DOMAIN assignments : assignments[a].chosen_due_date_id > Len(PriorDueDates)
  /\ \E i \in DOMAIN dAct : dAct[i].st = "running" /\ dd[i].pc = "pin"

\* The nodes of the tree of the crawl.
Nodes == DOMAIN bt.nodes

\* The depth of node n: the number of parents above it.
RECURSIVE DepthOf(_)
DepthOf(n) == IF bt.nodes[n].parent = 0 THEN 0 ELSE 1 + DepthOf(bt.nodes[n].parent)

\* Node n has been dealt with by the loop over the pages.
Processed(n) ==
  /\ \A k \in 1..Len(bt.queue) : bt.queue[k] # n
  /\ \A k \in 1..Len(bt.level) : bt.level[k] # n

\* C21: in the tree of a crawl every node has content_changed exactly when
\* its previous_hash is empty or differs from its content_hash, which is what
\* has_content_changed computes from the two hashes; the previous_hash of a
\* hashed node is the hash the previous tree holds for its URL.
C21_ChangeFlagMatchesHashes ==
  \A n \in Nodes :
    LET node == bt.nodes[n]
    IN /\ node.content_changed <=>
            (node.previous_hash = NoHash \/ node.previous_hash # node.content_hash)
       /\ node.content_changed <=> has_content_changed(node.content_hash, node.previous_hash)
       /\ node.content_hash # NoHash =>
            node.previous_hash = IF node.url \in DOMAIN bt.previous_hashes
                                   THEN bt.previous_hashes[node.url] ELSE NoHash

\* A finished crawl that found a page unchanged, a page changed and a page
\* the previous tree has no hash for.
C21_Witness ==
  /\ bt.pc = "done"
  /\ \E n \in Nodes : ~bt.nodes[n].content_changed
  /\ \E n \in Nodes : bt.nodes[n].content_changed /\ bt.nodes[n].previous_hash # NoHash
  /\ \E n \in Nodes : bt.nodes[n].content_hash # NoHash /\ bt.nodes[n].previous_hash = NoHash

\* C22: in the tree of a crawl no node lies deeper than MAX_DEPTH = 3 (the
\* root at depth 0) and no URL is the URL of two nodes, whatever links the
\* oracle returns.
C22_DepthBoundedUrlsUnique ==
  /\ \A n \in Nodes : DepthOf(n) <= 3
  /\ \A n \in Nodes, m \in Nodes : bt.nodes[n].url = bt.nodes[m].url => n = m

\* A finished crawl with /p3 at depth 2: the oracle returned, for a page at
\* depth 1, the list that holds /p3 and a link back to the root.
C22_Witness ==
  /\ bt.pc = "done"
  /\ \E n \in Nodes : bt.nodes[n].url = <<"https:", "//", "h", "/p3">> /\ DepthOf(n) = 2

\* C23: a fetch that fails on one page does not end the crawl: the node of
\* the page stays in the tree without html_path and with content_changed
\* true, and when the crawl returns every node of the tree has been dealt
\* with.
C23_FetchFailureIsolated ==
  /\ \A n \in Nodes :
       Processed(n) /\ bt.nodes[n].content_hash = NoHash =>
         bt.nodes[n].html_path = NoPath /\ bt.nodes[n].content_changed
  /\ bt.pc = "done" => \A n \in Nodes : Processed(n)

\* A finished crawl in which the fetch of a page of level 1 failed, a later
\* page of that level was saved and a page of level 2 was saved.
C23_Witness ==
  /\ bt.pc = "done"
  /\ \E n \in Nodes, m \in Nodes, k \in Nodes :
       /\ n < m /\ DepthOf(n) = 1 /\ DepthOf(m) = 1 /\ DepthOf(k) = 2
       /\ Navigable(bt.nodes[n].url) /\ bt.nodes[n].content_hash = NoHash
       /\ bt.nodes[m].html_path # NoPath /\ bt.nodes[k].html_path # NoPath

\* C24: every child URL of the tree is absolute, has the scheme http or
\* https and has no fragment; a link of another scheme never becomes a node.
C24_ChildUrlsHttpNoFragment ==
  \A n \in Nodes :
    bt.nodes[n].parent # 0 =>
      /\ Len(bt.nodes[n].url) >= 3
      /\ bt.nodes[n].url[1] \in {"http:", "https:"}
      /\ bt.nodes[n].url[2] = "//"
      /\ \A k \in 1..Len(bt.nodes[n].url) : bt.nodes[n].url[k] # "#"

\* The visible text of a document in canonical form: the words of the
\* elements that are none of script, style, meta, link, noscript, header,
\* footer and nav, in lower case.
RECURSIVE TextWords(_, _)
TextWords(s, word) ==
  IF s = <<>> THEN (IF word = <<>> THEN <<>> ELSE <<word>>)
  ELSE IF Head(s) \in {" ", "\n"}
    THEN (IF word = <<>> THEN <<>> ELSE <<word>>) \o TextWords(Tail(s), <<>>)
    ELSE TextWords(Tail(s), Append(word, IF Head(s) = "A" THEN "a"
                                         ELSE IF Head(s) = "B" THEN "b" ELSE Head(s)))

RECURSIVE VisibleWords(_)
VisibleWords(html) ==
  IF html = <<>> THEN <<>>
  ELSE (IF Head(html).tag \in {"script", "style", "meta", "link", "noscript",
                               "header", "footer", "nav"}
          THEN <<>> ELSE TextWords(Head(html).text, <<>>))
       \o VisibleWords(Tail(html))

\* C25 as stated: two calls with the same url and the same canonical visible
\* text return the same digest; two calls that differ in the canonical
\* visible text or in the url return different digests.
C25_DigestOfUrlAndText ==
  hc.pc = "hashed" =>
    LET sameText == VisibleWords(hc.html1) = VisibleWords(hc.html2)
        sameUrl  == hc.url1 = hc.url2
    IN /\ sameText /\ sameUrl => hc.hash1 = hc.hash2
       /\ ~sameText \/ ~sameUrl => hc.hash1 # hc.hash2

\* C25, amended: two calls with the same url and the same canonical visible
\* text return the same digest; with the same url and different texts, or
\* with the same text and different urls, they return different digests.
C25_DigestOfUrlAndTextOneDiffers ==
  hc.pc = "hashed" =>
    LET sameText == VisibleWords(hc.html1) = VisibleWords(hc.html2)
        sameUrl  == hc.url1 = hc.url2
    IN /\ sameText /\ sameUrl => hc.hash1 = hc.hash2
       /\ ~sameText /\ sameUrl => hc.hash1 # hc.hash2
       /\ sameText /\ ~sameUrl => hc.hash1 # hc.hash2

\* Two documents hashed for the same url that differ in a nav element, in
\* case and in whitespace and show the same text.
C25_Witness ==
  /\ hc.pc = "hashed" /\ hc.url1 = hc.url2 /\ hc.hash1 = hc.hash2
  /\ hc.html1 = <<[tag |-> "p", text |-> <<"A">>]>>
  /\ hc.html2 = <<[tag |-> "nav", text |-> <<"B", "\n", "a">>], [tag |-> "p", text |-> <<"a", " ">>]>>

\* C26: the path of a page saved by the crawl of a job sync is
\* <job_sync_id>/<md5(url)>.html, the blob at that path holds the document
\* the node was hashed from, also when a blob was there before, and the blobs
\* under the other job sync's directory are as they were.
C26_BlobWritesIdempotent ==
  /\ \A n \in Nodes :
       bt.nodes[n].html_path # NoPath =>
         /\ bt.nodes[n].html_path = <<bt.job_sync_id, <<"md5", bt.nodes[n].url>>>>
         /\ bt.nodes[n].html_path \in DOMAIN bt.blobs
         /\ <<"sha256", bt.nodes[n].url \o <<"|">>
                \o NormalizeText(GetText(bt.blobs[bt.nodes[n].html_path]))>> = bt.nodes[n].content_hash
  /\ \A p \in DOMAIN bt.blobs : p[1] # bt.job_sync_id => bt.blobs[p] = PageV2

\* A finished crawl that saved PageV1 for the root where the blob of an
\* earlier attempt held PageV2, beside the root blob of the other job sync.
C26_Witness ==
  /\ bt.pc = "done"
  /\ \E j \in CrawlJobSyncs : j # bt.job_sync_id /\ <<j, <<"md5", RootUrl>>>> \in DOMAIN bt.blobs
  /\ <<bt.job_sync_id, <<"md5", RootUrl>>>> \in DOMAIN bt.blobs
  /\ bt.blobs[<<bt.job_sync_id, <<"md5", RootUrl>>>>] = PageV1

\* The crawl activity of job sync j has returned a successful ScrapeResult.
CrawlSucceeded(acts, ids, j) ==
  \E i \in DOMAIN acts : ids[i] = j /\ acts[i].st = "returned" /\ acts[i].result.success

\* C27: a job sync has a stored tree exactly when a crawl activity for it
\* has succeeded, and a tree once stored is never changed by a later step.
C27_TreeIffCrawlSucceeded ==
  [][\A j \in DOMAIN jobSyncs' :
       /\ jobSyncs'[j].scraped_tree # NoTree <=> CrawlSucceeded(cAct', jobSyncIds', j)
       /\ (j \in DOMAIN jobSyncs /\ jobSyncs[j].scraped_tree # NoTree)
            => jobSyncs'[j].scraped_tree = jobSyncs[j].scraped_tree]_vars

\* C28: the result the run returns carries the id of the job sync group its
\* create_sync_jobs created, beside job_sync_ids.
C28_ResultCarriesGroupId ==
  wfPc = "done" =>
    /\ "group_id" \in DOMAIN wfResult
    /\ wfResult.group_id \in DOMAIN groups
    /\ wfResult.group_id = cj.group

\* The nodes extract_all_assignments of position i has to process.
TargetPages(i) == Len(NodesToProcess(jobSyncs[jobSyncIds[i]].scraped_tree))

C30_MissingCourseIsStageFailure ==
  /\ \A a \in DOMAIN assignments : assignments[a].course_id # NoCourse
  /\ \A i \in DOMAIN aAct :
       (jobSyncs[jobSyncIds[i]].course_id = NoCourse /\ ~NoTreeAt(i) /\ Finished(aAct[i])
          /\ faults = 1)
         => /\ aAct[i].st = "returned" /\ ~aAct[i].result.success
            /\ aAct[i].result.error_message = "No course_id found"

\* Assignment a was created by job sync j, or holds a page path of j.
TouchedBy(j, a) ==
  \/ assignments[a].job_sync_id = j
  \/ \E k \in DOMAIN assignments[a].source_page_paths :
       assignments[a].source_page_paths[k][1] = j

\* C31: find_due_dates of a job sync writes due dates only for the
\* assignments its own find_assignments created or touched: every entry it
\* is about to insert, and the row it has inserted and is about to pin, is
\* for such an assignment.
C31_StageDOnlyTouched ==
  \A i \in DOMAIN dAct :
    dAct[i].st = "running" =>
      \A k \in DOMAIN dd[i].todo : TouchedBy(jobSyncIds[i], dd[i].todo[k].assignment_id)

\* datetime.fromisoformat accepts the string.
ParsesAsIso(date) == date = "2026-01-15"

\* C32: every due date row in the store has a date that is empty or parses
\* as an ISO-8601 timestamp; a date of the oracle that does not parse is
\* never stored.
C32_StoredDatesAreIso ==
  \A d \in DOMAIN dueDates : dueDates[d].date = "" \/ ParsesAsIso(dueDates[d].date)

\* The day an ISO timestamp of the model names, as a number that grows with
\* time.
DayOf(date) ==
  CASE date = "2026-01-15T00:00:00" -> 20260115
    [] date = "2026-02-01T00:00:00" -> 20260201

\* Due date row x stands above row y in the ranking: date_certain first,
\* then time_certain, then the confidence (the rows of the store have none),
\* then the later date.
Outranks(x, y) ==
  IF x.date_certain # y.date_certain THEN x.date_certain
  ELSE IF x.time_certain # y.time_certain THEN x.time_certain
  ELSE DayOf(x.date) > DayOf(y.date)

\* The due date rows of assignment a.
CandidatesOf(a) == {d \in DOMAIN dueDates : dueDates[d].assignment_id = a}

\* C33: once the endpoint has dealt with an assignment that has several
\* candidate rows, the row pinned as its chosen_due_date_id is one of them
\* and no other candidate stands above it in the ranking.
C33_PinnedIsTopRanked ==
  ep.pc \in {"select", "returned"} =>
    \A k \in DOMAIN ep.assignments :
      LET a == ep.assignments[k]
      IN (Cardinality(CandidatesOf(a)) > 1 /\ \A m \in DOMAIN ep.todo : ep.todo[m] # a)
         => /\ assignments[a].chosen_due_date_id \in CandidatesOf(a)
            /\ \A d \in CandidatesOf(a) :
                 ~Outranks(dueDates[d], dueDates[assignments[a].chosen_due_date_id])

\* The step made link a child of node n: a new node of that URL under n, at
\* the end of the queue.
BecameChild(n, link) ==
  \E m \in DOMAIN bt'.nodes :
    /\ m \notin DOMAIN bt.nodes
    /\ bt'.nodes[m].url = link /\ bt'.nodes[m].parent = n
    /\ \E k \in DOMAIN bt'.queue : bt'.queue[k] = m

\* C34: when the oracle has returned links for a page at depth d and the
\* page is saved, a link becomes a child node in the queue exactly when its
\* URL was not visited before and d < MAX_DEPTH = 3.
C34_ChildIffUnseenBelowMaxDepth ==
  [][(bt.pc = "level" /\ bt'.nodes[Head(bt.level)].html_path # NoPath) =>
       \A k \in DOMAIN bt'.links :
         BecameChild(Head(bt.level), bt'.links[k])
           <=> (bt'.links[k] \notin bt.visited /\ bt.nodes[Head(bt.level)].depth < 3)]_vars

\* Two URLs that differ only in a "/" at the end of one of them.
DifferBySlash(u, v) == u = v \o <<"/">> \/ v = u \o <<"/">>

\* C35: no two nodes of the tree have URLs that differ only by a "/" at the
\* end or only by a fragment, so that one page is fetched for them.
C35_SlashAndFragmentSamePage ==
  \A n \in Nodes, m \in Nodes :
    n # m => /\ BeforeHash(bt.nodes[n].url) # BeforeHash(bt.nodes[m].url)
             /\ ~DifferBySlash(bt.nodes[n].url, bt.nodes[m].url)

\* C36: in the tree a crawl returns, every node that has a content_hash has
\* an html_path, whether or not the link oracle succeeded on its page.
C36_HashedNodesHaveHtml ==
  bt.pc = "done" =>
    \A n \in Nodes : bt.nodes[n].content_hash # NoHash => bt.nodes[n].html_path # NoPath

\* The sameSite the fetcher is to get for an exported value: None, Lax or
\* Strict for their spellings in any case, nothing (the empty string here)
\* for every other value.
FoldedSameSite(v) ==
  CASE v \in {<<"n", "one">>, <<"N", "one">>}                -> <<"N", "one">>
    [] v \in {<<"l", "ax">>, <<"L", "ax">>, <<"L", "AX">>}   -> <<"L", "ax">>
    [] v \in {<<"s", "trict">>, <<"S", "trict">>}            -> <<"S", "trict">>
    [] OTHER                                                 -> <<>>

\* C37: the call returns one record per cookie, in order; the record has
\* sameSite exactly when the cookie has one that spells None, Lax or Strict
\* in some case, and then that name in this spelling; it has none of
\* hostOnly, storeId, session; every other field of the cookie is in it with
\* its value and it has no further field; the cookies handed in are as they
\* were.
C37_CookiesCleaned ==
  [][ck.pc = "ready" =>
       /\ ck'.cookies = ck.cookies
       /\ DOMAIN ck'.cleaned = DOMAIN ck.cookies
       /\ \A k \in DOMAIN ck.cookies :
            LET cookie == ck.cookies[k]
                clean  == ck'.cleaned[k]
                known  == "sameSite" \in DOMAIN cookie /\ FoldedSameSite(cookie["sameSite"]) # <<>>
            IN /\ DOMAIN clean =
                    (DOMAIN cookie \ {"hostOnly", "storeId", "session", "sameSite"})
                      \cup (IF known THEN {"sameSite"} ELSE {})
               /\ known => clean["sameSite"] = FoldedSameSite(cookie["sameSite"])
               /\ \A f \in DOMAIN clean \ {"sameSite"} : clean[f] = cookie[f]]_vars

\* A call with two cookies has returned: the first came with sameSite LAX
\* and with hostOnly, storeId and session, the second with a sameSite the
\* fetcher does not know.
C37_Witness ==
  /\ ck.pc = "returned" /\ Len(ck.cookies) = 2
  /\ DOMAIN ck.cookies[1] = {"name", "secure", "sameSite", "hostOnly", "storeId", "session"}
  /\ ck.cookies[1]["sameSite"] = <<"L", "AX">>
  /\ ck.cleaned[1]["sameSite"] = <<"L", "ax">>
  /\ "sameSite" \in DOMAIN ck.cookies[2] /\ ck.cookies[2]["sameSite"] = <<"b", "ogus">>
  /\ "sameSite" \notin DOMAIN ck.cleaned[2]

\* The latest job sync of the source of j that was created before j and has
\* a stored tree; 0 when there is none.
EarlierStored(j) ==
  LET earlier == {k \in 1..(j - 1) : /\ jobSyncs[k].source_id = jobSyncs[j].source_id
                                     /\ jobSyncs[k].scraped_tree # NoTree}
  IN IF earlier = {} THEN 0 ELSE CHOOSE k \in earlier : \A m \in earlier : m <= k

\* C38: when a job sync of this run has its tree stored and an earlier job
\* sync of its source has a stored tree, a page of the new tree counts as
\* changed exactly when the latest such earlier tree holds no hash for its
\* url or another hash; a job sync without a tree in between changes nothing.
C38_BaselineIsEarlierStoredTree ==
  \A i \in DOMAIN jobSyncIds :
    LET j    == jobSyncIds[i]
        tree == jobSyncs[j].scraped_tree
    IN (tree # NoTree /\ EarlierStored(j) # 0) =>
         \A n \in DOMAIN tree :
           tree[n].content_changed
             <=> tree[n].content_hash
                   \notin PreviousHashes(jobSyncs[EarlierStored(j)].scraped_tree, tree[n].url)

\* C39: when a job sync of this run has its tree stored, every page that the
\* latest earlier stored tree of its source has as changed and that no
\* assignment names as a source page (find_assignments did not extract it)
\* is changed in the new tree too, so that find_assignments takes it.
C39_UnextractedPageProcessedAgain ==
  \A i \in DOMAIN jobSyncIds :
    LET j    == jobSyncIds[i]
        tree == jobSyncs[j].scraped_tree
        prev == IF EarlierStored(j) = 0 THEN NoTree ELSE jobSyncs[EarlierStored(j)].scraped_tree
    IN tree # NoTree =>
         \A p \in DOMAIN prev, n \in DOMAIN tree :
           ( /\ prev[p].url = tree[n].url
             /\ prev[p].content_changed
             /\ \A a \in DOMAIN assignments :
                  \A k \in DOMAIN assignments[a].source_page_paths :
                    assignments[a].source_page_paths[k] # prev[p].html_path )
             => tree[n] \in {NodesToProcess(tree)[m] : m \in DOMAIN NodesToProcess(tree)}

\* C40: the table due_dates holds at most one row per assignment (the table
\* is empty when the run starts).
C40_OneDueDateRowPerAssignment ==
  \A a \in DOMAIN assignments :
    Cardinality({d \in DOMAIN dueDates : dueDates[d].assignment_id = a}) <= 1

====
